---- MODULE Spec2Model ----
(***************************************************************************)
(* State-machine model of the skywatch forecast pipeline:                  *)
(*   - NetCDFParser (backend/parsers/netcdf_parser.py): schema detection,  *)
(*     spatial sampling, longitude conversion, per-timestep extraction,    *)
(*     precipitation decumulation, point collection and statistics;        *)
(*   - UnifiedParser (backend/parsers/unified_parser.py): alignment of a   *)
(*     secondary time axis to the primary one and forecast_hour.           *)
(*                                                                         *)
(* Floating-point values are modelled as exact decimals m * 10^e together  *)
(* with the IEEE specials NaN, +Inf, -Inf.  Rounding error is not          *)
(* modelled.  Times are whole minutes; a timestamp string is modelled by   *)
(* its broken-down (hour, minute) form.                                    *)
(***************************************************************************)
EXTENDS Integers, Sequences, FiniteSets, TLC

VARIABLES
    datasets,               \* parser object -> the dataset it opened (read-only)
    calls_left,             \* how many parse calls the caller will still make
    pc,                     \* position of the caller / of NetCDFParser.parse
    self_p,                 \* the parser object whose parse is running
    sample_rate,            \* argument of the running parse call
    pm25_var, u_wind_var, v_wind_var, precip_var,   \* detected variable names
    lat_coord, lon_coord, time_coord,               \* detected dimension names
    lat_idx, lon_idx,       \* source indices kept by the spatial sampling
    lats, lons,             \* coordinate values after sampling (lons converted)
    t_idx,                  \* loop index over times
    prev_precip_cumulative, \* carried previous cumulative precipitation grid
    precip_values,          \* interval precipitation grid of the last timestep
    precip_log,             \* precip_values of each timestep of the running call (history)
    timesteps,              \* list built by the running parse call
    returned,               \* log of the parse calls that returned
    cams_timesteps,         \* UnifiedParser.parse input: primary timesteps
    ecmwf_timestamps,       \* UnifiedParser.parse input: secondary time axis
    ecmwf_precip_data,      \* UnifiedParser.parse input: secondary points
    u_pc,                   \* position of UnifiedParser.parse
    u_pos,                  \* loop position in cams_timesteps
    matched,                \* matching_ecmwf_idx chosen for each primary step
    unified_timesteps,      \* list built by UnifiedParser.parse
    unified_result,         \* value returned by UnifiedParser.parse
    stage,                  \* stage of the loop body that runs next
    work,                   \* locals of the loop body between its stages
    stage_log,              \* stages completed so far, in order (history)
    main_pc,                \* position of backend/main.py main()
    handle,                 \* the dataset handle of main()'s parser: none, open, closed
    main_ret,               \* value returned by main() (-1 while it runs)
    aq_pc,                  \* position of AirQualityDataParser.parse_pm25_to_json
    aq_sample_rate,         \* its argument sample_rate
    max_points_per_time,    \* its argument max_points_per_time (optional int)
    time_idx,               \* its loop index over times
    forecasts,              \* output_data["forecasts"] built so far
    ps_pc,                  \* position of fetch_pollution_sources
    firms_fails,            \* whether the FIRMS request raises (environment)
    firms_rows,             \* rows of the CSV the FIRMS API answers with
    save_fails,             \* whether writing data/fire_data.json raises
    fallback_file,          \* data/fire_data.json: whether it exists, its entries
    fires_raw,              \* what fetch_global_fires returned
    fire_pos,               \* entries of fires_raw normalised so far
    fires,                  \* the list fires of fetch_pollution_sources
    fires_loaded,           \* the flag fires_loaded
    ec_pc,                  \* position of ECMWFFetcher.fetch
    bbox,                   \* its bounding box [N, W, S, E], in half degrees
    ec_lats, ec_lons        \* its sample latitudes and longitudes, in half degrees

nc_vars == <<datasets, calls_left, pc, self_p, sample_rate,
             pm25_var, u_wind_var, v_wind_var, precip_var,
             lat_coord, lon_coord, time_coord, lat_idx, lon_idx, lats, lons,
             t_idx, prev_precip_cumulative, precip_values, precip_log, timesteps, returned>>

un_vars == <<cams_timesteps, ecmwf_timestamps, ecmwf_precip_data,
             u_pc, u_pos, matched, unified_timesteps, unified_result>>

st_vars == <<stage, work, stage_log>>

mn_vars == <<main_pc, handle, main_ret>>

aq_vars == <<aq_pc, aq_sample_rate, max_points_per_time, time_idx, forecasts>>

ps_vars == <<ps_pc, firms_fails, firms_rows, save_fails, fallback_file,
             fires_raw, fire_pos, fires, fires_loaded>>

ec_vars == <<ec_pc, bbox, ec_lats, ec_lons>>

ot_vars == <<aq_vars, ps_vars, ec_vars>>

vars == <<nc_vars, un_vars, st_vars, mn_vars, ot_vars>>

None == "None"

-----------------------------------------------------------------------------
(* Floating-point values.                                                  *)

RECURSIVE Pow10(_)
Pow10(n) == IF n = 0 THEN 1 ELSE 10 * Pow10(n - 1)

RECURSIVE Norm(_, _)
\* canonical form of m * 10^e: zero has exponent 0, no trailing decimal zero
Norm(m, e) ==
    IF m = 0 THEN [k |-> "num", m |-> 0, e |-> 0]
    ELSE IF m % 10 = 0 THEN Norm(m \div 10, e + 1)
    ELSE [k |-> "num", m |-> m, e |-> e]

Num(m, e) == Norm(m, e)
Zero == Num(0, 0)
NaN  == [k |-> "nan", m |-> 0, e |-> 0]
PInf == [k |-> "inf", m |-> 1, e |-> 0]
NInf == [k |-> "inf", m |-> -1, e |-> 0]

isnan(x) == x.k = "nan"
isinf(x) == x.k = "inf"
IsFinite(x) == x.k = "num"

Min2(a, b) == IF a <= b THEN a ELSE b

\* sign of a non-NaN value: -1, 0 or 1
Sign(x) == IF x.m > 0 THEN 1 ELSE IF x.m < 0 THEN -1 ELSE 0

\* mantissa of a finite value at exponent e0 <= x.e
MantAt(x, e0) == x.m * Pow10(x.e - e0)

FNeg(x) == IF isnan(x) THEN NaN
           ELSE IF isinf(x) THEN [x EXCEPT !.m = -x.m]
           ELSE Num(-x.m, x.e)

FAdd(a, b) ==
    IF isnan(a) \/ isnan(b) THEN NaN
    ELSE IF isinf(a) /\ isinf(b) THEN (IF a.m = b.m THEN a ELSE NaN)
    ELSE IF isinf(a) THEN a
    ELSE IF isinf(b) THEN b
    ELSE LET e0 == Min2(a.e, b.e)
         IN  Num(MantAt(a, e0) + MantAt(b, e0), e0)

FSub(a, b) == FAdd(a, FNeg(b))

\* x * 10^p for p >= 0  (x * 1000, x * 1e9)
FScale(x, p) == IF IsFinite(x) THEN Num(x.m, x.e + p) ELSE x

\* a < b as IEEE comparison (false when either is NaN)
FLess(a, b) ==
    IF isnan(a) \/ isnan(b) THEN FALSE
    ELSE IF isinf(a) THEN a.m < 0 /\ ~(isinf(b) /\ b.m < 0)
    ELSE IF isinf(b) THEN b.m > 0
    ELSE LET e0 == Min2(a.e, b.e) IN MantAt(a, e0) < MantAt(b, e0)

FGreater(a, b) == FLess(b, a)

\* np.maximum(x, 0): NaN propagates
FMaximum0(x) == IF isnan(x) THEN NaN
                ELSE IF FLess(x, Zero) THEN Zero ELSE x

\* x * x
FSquare(x) == IF isnan(x) THEN NaN
              ELSE IF isinf(x) THEN PInf
              ELSE Num(x.m * x.m, 2 * x.e)

\* np.sqrt of a non-negative value; the data keep finite radicands perfect squares
FSqrt(x) == IF IsFinite(x)
            THEN LET e0 == IF x.e % 2 = 0 THEN x.e ELSE x.e - 1
                     mm == MantAt(x, e0)
                 IN  Num(CHOOSE r \in 0..mm : r * r = mm, e0 \div 2)
            ELSE x

\* np.degrees(np.arctan2(v, u)) as whole degrees; the data keep finite vectors
\* on the axes or the diagonals
Atan2Deg(v, u) ==
    LET su == Sign(u)
        sv == Sign(v)
    IN  IF isinf(u) /\ isinf(v)
        THEN (IF su > 0 THEN 45 * sv ELSE 135 * sv)
        ELSE IF isinf(v) THEN 90 * sv
        ELSE IF isinf(u) THEN (IF su > 0 THEN 0 ELSE IF sv < 0 THEN -180 ELSE 180)
        ELSE IF sv = 0 THEN (IF su >= 0 THEN 0 ELSE 180)
        ELSE IF su = 0 THEN 90 * sv
        ELSE CHOOSE d \in {-135, -45, 45, 135} :
                 /\ MantAt(u, Min2(u.e, v.e)) * su = MantAt(v, Min2(u.e, v.e)) * sv
                 /\ d = (IF su > 0 THEN 45 * sv ELSE 135 * sv)

\* x / n for a count n >= 1: a decimal when it terminates within three digits,
\* otherwise the exact fraction
FDivN(x, n) ==
    IF ~IsFinite(x) THEN x
    ELSE IF \E d \in 0..3 : (x.m * Pow10(d)) % n = 0
    THEN LET d == CHOOSE d \in 0..3 :
                    /\ (x.m * Pow10(d)) % n = 0
                    /\ \A c \in 0..3 : (x.m * Pow10(c)) % n = 0 => d <= c
         IN  Num((x.m * Pow10(d)) \div n, x.e - d)
    ELSE [k |-> "frac", m |-> x.m, e |-> x.e, n |-> n]

RECURSIVE FSum(_)
FSum(s) == IF s = <<>> THEN Zero ELSE FAdd(Head(s), FSum(Tail(s)))

RECURSIVE FMin(_)
\* np.min of a non-empty list
FMin(s) == IF Len(s) = 1 THEN Head(s)
           ELSE LET r == FMin(Tail(s))
                IN  IF isnan(Head(s)) \/ isnan(r) THEN NaN
                    ELSE IF FLess(r, Head(s)) THEN r ELSE Head(s)

RECURSIVE FMax(_)
\* np.max of a non-empty list
FMax(s) == IF Len(s) = 1 THEN Head(s)
           ELSE LET r == FMax(Tail(s))
                IN  IF isnan(Head(s)) \/ isnan(r) THEN NaN
                    ELSE IF FLess(Head(s), r) THEN r ELSE Head(s)

FMean(s) == FDivN(FSum(s), Len(s))

\* the list without its element at position i
DropAt(s, i) == [n \in 1..(Len(s) - 1) |-> IF n < i THEN s[n] ELSE s[n + 1]]

RECURSIVE SortAsc(_)
SortAsc(s) ==
    IF s = <<>> THEN <<>>
    ELSE LET i == CHOOSE i \in 1..Len(s) :
                      \A n \in 1..Len(s) : ~FLess(s[n], s[i])
         IN  <<s[i]>> \o SortAsc(DropAt(s, i))

\* np.median of a non-empty list of non-NaN values
FMedian(s) ==
    LET o == SortAsc(s)
        n == Len(s)
    IN  IF n % 2 = 1 THEN o[(n + 1) \div 2]
        ELSE FDivN(FAdd(o[n \div 2], o[n \div 2 + 1]), 2)

-----------------------------------------------------------------------------
(* Times.                                                                  *)

SecondsPerHour == 3600

\* str(np.datetime64(time_val)): the broken-down ISO form of an instant
IsoFormat(minutes) == [h |-> minutes \div 60, mi |-> minutes % 60]

\* datetime.fromisoformat(...): the instant of a broken-down ISO form, in minutes
FromIsoFormat(ts) == ts.h * 60 + ts.mi

\* (a - b).total_seconds()
TotalSeconds(a, b) == (a - b) * 60

Abs(x) == IF x < 0 THEN -x ELSE x

\* IntTrunc as floor division (x // d)
IntFloor(x, d) == x \div d

\* int(x / d): Python's int() truncates toward zero
IntTrunc(x, d) == IF x >= 0 THEN x \div d ELSE -((-x) \div d)

-----------------------------------------------------------------------------
(* The datasets a parser object can open.                                  *)
(* A dataset has named variables (data_vars), named dimensions (dims),     *)
(* coordinate axes and, for every variable, a (time, lat, lon) grid; the   *)
(* grids are functions of the variable's name and of one drawn series. The *)
(* modelled datasets carry neither a forecast_reference_time nor a level   *)
(* axis, and no separate valid_time coordinate.                            *)

NumLat   == 2      \* length of the latitude axis
NumLon   == 3      \* length of the longitude axis
NumTimes == 3      \* length of the time axis
MaxCalls == 3      \* parse calls made in the repeated-call specification

Parsers == {1, 2}

Pm25Names   == <<"pm2p5", "pm2.5", "pm25", "particulate_matter_2p5um">>
UWindNames  == <<"u10", "u10m", "10m_u_component_of_wind">>
VWindNames  == <<"v10", "v10m", "10m_v_component_of_wind">>
PrecipNames == <<"tp", "total_precipitation", "precipitation">>
\* possible_names of parse_pm25_to_json
AqNames == <<"pm2p5", "pm2.5", "pm25", "particulate_matter_2p5um">>
LatNames    == <<"latitude", "lat">>
LonNames    == <<"longitude", "lon">>
TimeNames   == <<"forecast_period", "time", "valid_time">>

\* position of a name in an alias list (0 when absent)
RankIn(names, n) ==
    IF \E i \in 1..Len(names) : names[i] = n
    THEN CHOOSE i \in 1..Len(names) : names[i] = n
    ELSE 0

LatAxis == [i \in 1..NumLat |-> 60 - 10 * i]
DefaultLonAxis == [j \in 1..NumLon |-> 170 + 10 * j]
TimeAxis == [t \in 1..NumTimes |-> 360 * (t - 1)]

\* values a cumulative precipitation cell can hold, in metres
PrecipVals == {Zero, Num(8, -4), Num(9, -4), Num(-1, -4), NaN, PInf}
\* values a longitude coordinate can hold, in degrees
LonVals == {-190, -180, 180, 181, 540, 541}

StdVars == {"pm2p5", "u10", "v10", "tp"}
StdDims == {"latitude", "longitude", "forecast_period"}

VarSets == { StdVars,
             {"pm2p5", "u10", "v10"},
             {"pm25", "pm2p5", "u10m", "u10", "v10m", "total_precipitation",
              "precipitation"},
             {"particulate_matter_2p5um", "10m_u_component_of_wind",
              "10m_v_component_of_wind", "precipitation", "t2m"},
             {"u10", "v10", "tp"},
             {"pm2p5", "v10", "tp"},
             {"pm2p5", "u10", "tp", "v100"} }

DimSets == { StdDims,
             {"lat", "lon", "time", "valid_time"},
             {"lat", "latitude", "lon", "longitude", "time", "forecast_period"},
             {"latitude", "longitude"},
             {"longitude", "time"},
             {"latitude", "time", "long"} }

\* raw PM2.5 (kg/m3) of the variable with alias rank r
Pm25Raw(r, t, i, j) ==
    IF i = 2 /\ j = 2 THEN NaN
    ELSE IF i = 1 /\ j = 2 /\ t = 2 THEN PInf
    ELSE Num((r - 1) * 10 + (i - 1) * 2 + j + (t - 1), -9)

\* raw wind components (m/s)
UWindRaw(r, t, i, j) ==
    IF i = 1 /\ j = 1 THEN Num(3 * r * t, 0)
    ELSE IF i = 2 /\ j = 1 THEN NaN
    ELSE IF i = 1 /\ j = 2 THEN Zero
    ELSE IF i = 2 /\ j = 2 THEN Num(-2 * r, 0)
    ELSE IF i = 1 THEN PInf
    ELSE IF j % 2 = 1 THEN Zero
    ELSE Num(t + j, 0)

VWindRaw(r, t, i, j) ==
    IF i = 1 /\ j = 1 THEN Zero
    ELSE IF i = 2 /\ j = 1 THEN Num(1, 0)
    ELSE IF i = 1 /\ j = 2 THEN Num(-4 * r, 0)
    ELSE IF i = 2 /\ j = 2 THEN (IF t = 2 THEN NaN ELSE Zero)
    ELSE IF i = 1 THEN Num(1, 0)
    ELSE IF j % 2 = 1 THEN Num(t + j, 0)
    ELSE Zero

\* raw cumulative precipitation (m): cell (1,1) of the first alias holds the
\* series under test, the other cells and aliases fixed series that rise,
\* stall, dip and hold specials
PrecipRaw(r, series, t, i, j) ==
    IF r = 1 /\ i = 1 /\ j = 1 THEN series[t]
    ELSE IF i = 1 /\ j = 2 THEN Num(r * t, -4)
    ELSE IF i = 2 /\ j = 1 THEN Num(5, -4)
    ELSE IF i = 2 /\ j = 2 THEN (IF t % 2 = 0 THEN Num(7, -4) ELSE Num(6, -4))
    ELSE IF i = 1 THEN (IF t = 2 THEN NaN ELSE Num(r + t, -4))
    ELSE Num(r + 1, -4)

\* the raw value of variable n at time t (1-based), latitude i, longitude j, in a
\* dataset whose cell under test holds the given series
VarValue(n, series, t, i, j) ==
    IF RankIn(Pm25Names, n) > 0 THEN Pm25Raw(RankIn(Pm25Names, n), t, i, j)
    ELSE IF RankIn(UWindNames, n) > 0 THEN UWindRaw(RankIn(UWindNames, n), t, i, j)
    ELSE IF RankIn(VWindNames, n) > 0 THEN VWindRaw(RankIn(VWindNames, n), t, i, j)
    ELSE IF RankIn(PrecipNames, n) > 0
         THEN PrecipRaw(RankIn(PrecipNames, n), series, t, i, j)
    ELSE Zero

\* the four quantities and the axes a variable can carry besides time, latitude
\* and longitude (each with more than one entry)
Quantities == {"pm25", "u_wind", "v_wind", "precip"}
ExtraAxes  == {"forecast_reference_time", "level"}
NoAxes     == [q \in Quantities |-> {}]

\* a dataset: its declared names, its axes, the series that fixes its grids and
\* the extra axes of the variable of each quantity
MkDataset(vs, ds, lonAxis, series) ==
    [ data_vars |-> vs,
      dims      |-> ds,
      lat       |-> LatAxis,
      lon       |-> lonAxis,
      times     |-> TimeAxis,
      series    |-> series,
      axes      |-> NoAxes ]

\* self.dataset[var] at (t, i, j)
DataAt(ds, var, t, i, j) == VarValue(var, ds.series, t, i, j)

AllSeries == [1..NumTimes -> PrecipVals]
RisingSeries == [t \in 1..NumTimes |-> Num(t, -4)]

\* datasets that differ in the cumulative precipitation of one cell
PrecipDatasets ==
    { MkDataset(StdVars, StdDims, DefaultLonAxis, s) : s \in AllSeries }
\* datasets that differ in the variable and dimension names they declare
SchemaDatasets ==
    { MkDataset(vs, ds, DefaultLonAxis, RisingSeries) : vs \in VarSets, ds \in DimSets }
\* datasets that differ in the first two coordinates of their longitude axis
LonDatasets ==
    { MkDataset(StdVars, StdDims,
                [j \in 1..NumLon |-> IF j = 1 THEN a ELSE IF j = 2 THEN b
                                                  ELSE DefaultLonAxis[j]],
                RisingSeries) : a \in LonVals, b \in LonVals }

\* datasets whose latitude axis, longitude axis or both have length 0
EmptyAxisDatasets ==
    { [MkDataset(StdVars, StdDims, DefaultLonAxis, RisingSeries)
           EXCEPT !.lat = ax[1], !.lon = ax[2]] :
      ax \in { <<<<>>, DefaultLonAxis>>, <<LatAxis, <<>>>>, <<<<>>, <<>>>> } }

\* datasets that differ in the extra axes their four variables carry
AxesDatasets ==
    { [MkDataset(StdVars, StdDims, DefaultLonAxis, RisingSeries) EXCEPT !.axes = ax] :
      ax \in [Quantities -> SUBSET ExtraAxes] }

\* a 2-timestep dataset on a 2x2 grid whose concentration at the first time is
\* [[1e-9, 2e-9], [3e-9, NaN]] kg/m3
ExampleDataset ==
    [MkDataset(StdVars, StdDims, DefaultLonAxis, RisingSeries)
        EXCEPT !.lat = <<50, 40>>, !.lon = <<10, 20>>, !.times = <<0, 360>>]

AllDatasets ==
    PrecipDatasets \cup SchemaDatasets \cup LonDatasets \cup EmptyAxisDatasets
        \cup {ExampleDataset}

\* the dataset of the second parser object
OtherDataset ==
    MkDataset({"pm25", "u10m", "v10m", "precipitation"}, {"lat", "lon", "time"},
              DefaultLonAxis, RisingSeries)

\* values the sample_rate argument can hold (main.py: --sample-rate, type=int)
SampleRates == {-1, 0, 1, 2}

-----------------------------------------------------------------------------
(* Schema detector.                                                        *)

RECURSIVE DetectLast(_, _)
\* DetectFirst without the early return: the last alias present wins
DetectLast(possible_names, namespace) ==
    IF possible_names = <<>> THEN None
    ELSE LET later == DetectLast(Tail(possible_names), namespace)
         IN  IF later # None THEN later
             ELSE IF Head(possible_names) \in namespace THEN Head(possible_names)
             ELSE None

RECURSIVE DetectFirst(_, _)
\* for name in possible_names: if name in namespace: return name; return None
DetectFirst(possible_names, namespace) ==
    IF possible_names = <<>> THEN None
    ELSE IF Head(possible_names) \in namespace THEN Head(possible_names)
    ELSE DetectFirst(Tail(possible_names), namespace)

_detect_variable(ds, possible_names) == DetectFirst(possible_names, ds.data_vars)
_detect_dimension(ds, possible_names) == DetectFirst(possible_names, ds.dims)

-----------------------------------------------------------------------------
(* NetCDFParser.parse: preparation.                                        *)

\* an optional grid: None, or a grid of values
NoGrid == [some |-> FALSE, grid |-> <<>>]
SomeGrid(g) == [some |-> TRUE, grid |-> g]

\* SliceIdx that drops the last, partial stride
SliceIdxFloor(n, rate) == [q \in 1..(n \div rate) |-> 1 + (q - 1) * rate]

\* indices selected by slice(None, None, rate) on an axis of length n (1-based)
SliceIdx(n, rate) == [q \in 1..((n + rate - 1) \div rate) |-> 1 + (q - 1) * rate]

\* indices kept on an axis of length n: sampling applies only when sample_rate > 1
SampledIdx(n, rate) == IF rate > 1 THEN SliceIdx(n, rate) ELSE [q \in 1..n |-> q]

\* ConvertLon with "lons >= 180"
ConvertLonInclusive(lon) == IF lon >= 180 THEN lon - 360 ELSE lon

\* np.where(lons > 180, lons - 360, lons), one coordinate
ConvertLon(lon) == IF lon > 180 THEN lon - 360 ELSE lon

\* PrevAtStart keeping the state an earlier call left behind
PrevKept(old) == old

\* prev_precip_cumulative = None at the start of parse
PrevAtStart(old) == NoGrid

\* timesteps = [] at the start of parse
TimestepsAtStart(old) == <<>>

\* RequiredVarsFound with precipitation treated as a required variable
RequiredVarsFoundWithPrecip(ds) ==
    /\ _detect_variable(ds, Pm25Names) # None
    /\ _detect_variable(ds, UWindNames) # None
    /\ _detect_variable(ds, VWindNames) # None
    /\ _detect_variable(ds, PrecipNames) # None

RequiredVarsFound(ds) ==
    /\ _detect_variable(ds, Pm25Names) # None
    /\ _detect_variable(ds, UWindNames) # None
    /\ _detect_variable(ds, VWindNames) # None

\* DimensionsFound without the test of the time dimension
DimensionsFoundNoTime(ds) ==
    /\ _detect_dimension(ds, LatNames) # None
    /\ _detect_dimension(ds, LonNames) # None

DimensionsFound(ds) ==
    /\ _detect_dimension(ds, LatNames) # None
    /\ _detect_dimension(ds, LonNames) # None
    /\ _detect_dimension(ds, TimeNames) # None

\* the lines 82-88 and 91-97 for one axis: the selection is gated on the pm25
\* variable carrying the axis; it then applies isel(axis=0) to pm25, u and v
\* without a test, and to precipitation when it carries the axis
AxisGate(ds, ax) == ax \in ds.axes["pm25"]

\* isel(axis=0) on the u and v variables finds the axis (xarray raises
\* ValueError for a dimension the variable does not have)
AxisSelectionDefined(ds) ==
    \A ax \in ExtraAxes :
        AxisGate(ds, ax) => (ax \in ds.axes["u_wind"] /\ ax \in ds.axes["v_wind"])

\* the extra axes quantity q still carries after lines 82-97
RemainingAxes(ds, q) == { ax \in ds.axes[q] : ~AxisGate(ds, ax) }

\* every per-timestep grid is two-dimensional (lat x lon)
GridsTwoDimensional(ds) ==
    /\ RemainingAxes(ds, "pm25") = {}
    /\ RemainingAxes(ds, "u_wind") = {}
    /\ RemainingAxes(ds, "v_wind") = {}
    /\ _detect_variable(ds, PrecipNames) # None => RemainingAxes(ds, "precip") = {}

\* lons.min() and lons.max() in the log call of line 118 have a value: numpy
\* raises ValueError for the minimum of a zero-size array
LonRangeDefined(ds, rate) == Len(SampledIdx(Len(ds.lon), rate)) > 0

\* parse(), from its entry to the start of the timestep loop
ParseBegin(p, rate) ==
    LET ds == datasets[p] IN
    /\ pc = "idle"
    /\ calls_left > 0
    /\ RequiredVarsFound(ds)
    /\ DimensionsFound(ds)
    /\ AxisSelectionDefined(ds)
    /\ LonRangeDefined(ds, rate)
    /\ calls_left' = calls_left - 1
    /\ self_p' = p
    /\ sample_rate' = rate
    /\ pm25_var' = _detect_variable(ds, Pm25Names)
    /\ u_wind_var' = _detect_variable(ds, UWindNames)
    /\ v_wind_var' = _detect_variable(ds, VWindNames)
    /\ precip_var' = _detect_variable(ds, PrecipNames)
    /\ lat_coord' = _detect_dimension(ds, LatNames)
    /\ lon_coord' = _detect_dimension(ds, LonNames)
    /\ time_coord' = _detect_dimension(ds, TimeNames)
    /\ lat_idx' = SampledIdx(Len(ds.lat), rate)
    /\ lon_idx' = SampledIdx(Len(ds.lon), rate)
    /\ lats' = [q \in 1..Len(lat_idx') |-> ds.lat[lat_idx'[q]]]
    /\ lons' = [q \in 1..Len(lon_idx') |-> ConvertLon(ds.lon[lon_idx'[q]])]
    /\ t_idx' = 0
    /\ timesteps' = TimestepsAtStart(timesteps)
    /\ prev_precip_cumulative' = PrevAtStart(prev_precip_cumulative)
    /\ precip_values' = NoGrid
    /\ precip_log' = <<>>
    /\ pc' = "loop"
    /\ UNCHANGED <<datasets, returned, un_vars, st_vars, mn_vars, ot_vars>>

\* parse() raising ValueError: a required variable or a dimension is not detected
ParseSchemaError(p, rate) ==
    LET ds == datasets[p] IN
    /\ pc = "idle"
    /\ calls_left > 0
    /\ ~(RequiredVarsFound(ds) /\ DimensionsFound(ds))
    /\ calls_left' = calls_left - 1
    /\ self_p' = p
    /\ sample_rate' = rate
    /\ pm25_var' = _detect_variable(ds, Pm25Names)
    /\ u_wind_var' = _detect_variable(ds, UWindNames)
    /\ v_wind_var' = _detect_variable(ds, VWindNames)
    /\ precip_var' = _detect_variable(ds, PrecipNames)
    /\ lat_coord' = IF RequiredVarsFound(ds) THEN _detect_dimension(ds, LatNames) ELSE None
    /\ lon_coord' = IF RequiredVarsFound(ds) THEN _detect_dimension(ds, LonNames) ELSE None
    /\ time_coord' = IF RequiredVarsFound(ds) THEN _detect_dimension(ds, TimeNames) ELSE None
    /\ pc' = "raised"
    /\ UNCHANGED <<datasets, lat_idx, lon_idx, lats, lons, t_idx,
                   prev_precip_cumulative, precip_values, precip_log, timesteps, returned,
                   un_vars, st_vars, mn_vars, ot_vars>>

\* parse() raising ValueError in the log call of line 118: the sampled longitude
\* axis is empty
ParseEmptyLonError(p, rate) ==
    LET ds == datasets[p] IN
    /\ pc = "idle"
    /\ calls_left > 0
    /\ RequiredVarsFound(ds)
    /\ DimensionsFound(ds)
    /\ AxisSelectionDefined(ds)
    /\ ~LonRangeDefined(ds, rate)
    /\ calls_left' = calls_left - 1
    /\ self_p' = p
    /\ sample_rate' = rate
    /\ pm25_var' = _detect_variable(ds, Pm25Names)
    /\ u_wind_var' = _detect_variable(ds, UWindNames)
    /\ v_wind_var' = _detect_variable(ds, VWindNames)
    /\ precip_var' = _detect_variable(ds, PrecipNames)
    /\ lat_coord' = _detect_dimension(ds, LatNames)
    /\ lon_coord' = _detect_dimension(ds, LonNames)
    /\ time_coord' = _detect_dimension(ds, TimeNames)
    /\ lat_idx' = SampledIdx(Len(ds.lat), rate)
    /\ lon_idx' = SampledIdx(Len(ds.lon), rate)
    /\ lats' = [q \in 1..Len(lat_idx') |-> ds.lat[lat_idx'[q]]]
    /\ lons' = [q \in 1..Len(lon_idx') |-> ConvertLon(ds.lon[lon_idx'[q]])]
    /\ pc' = "raised"
    /\ UNCHANGED <<datasets, t_idx, prev_precip_cumulative, precip_values, precip_log,
                   timesteps, returned, un_vars, st_vars, mn_vars, ot_vars>>

\* parse() raising ValueError in lines 85-86 or 94-95: pm25 carries an extra axis
\* that the u or the v variable does not have
ParseAxisError(p, rate) ==
    LET ds == datasets[p] IN
    /\ pc = "idle"
    /\ calls_left > 0
    /\ RequiredVarsFound(ds)
    /\ DimensionsFound(ds)
    /\ ~AxisSelectionDefined(ds)
    /\ calls_left' = calls_left - 1
    /\ self_p' = p
    /\ sample_rate' = rate
    /\ pm25_var' = _detect_variable(ds, Pm25Names)
    /\ u_wind_var' = _detect_variable(ds, UWindNames)
    /\ v_wind_var' = _detect_variable(ds, VWindNames)
    /\ precip_var' = _detect_variable(ds, PrecipNames)
    /\ lat_coord' = _detect_dimension(ds, LatNames)
    /\ lon_coord' = _detect_dimension(ds, LonNames)
    /\ time_coord' = _detect_dimension(ds, TimeNames)
    /\ pc' = "raised"
    /\ UNCHANGED <<datasets, lat_idx, lon_idx, lats, lons, t_idx,
                   prev_precip_cumulative, precip_values, precip_log, timesteps, returned,
                   un_vars, st_vars, mn_vars, ot_vars>>

-----------------------------------------------------------------------------
(* NetCDFParser.parse: one iteration of the timestep loop.                 *)

\* data.isel({time_coord: t}).values of a sampled variable (t is 0-based)
SliceValues(ds, var, t, li, lo) ==
    [i \in 1..Len(li) |-> [j \in 1..Len(lo) |-> DataAt(ds, var, t + 1, li[i], lo[j])]]

MapGrid(g, Op(_)) == [i \in 1..Len(g) |-> [j \in 1..Len(g[i]) |-> Op(g[i][j])]]

\* Decumulate without the np.maximum(precip_values, 0) clamp
DecumulateNoClamp(t, precip_cumulative, prev) ==
    IF t = 0 \/ ~prev.some
    THEN MapGrid(precip_cumulative, LAMBDA c : FScale(c, 3))
    ELSE [i \in 1..Len(precip_cumulative) |->
            [j \in 1..Len(precip_cumulative[i]) |->
                FScale(FSub(precip_cumulative[i][j], prev.grid[i][j]), 3)]]

\* Decumulate that reports 0 for the first timestep instead of its cumulative value
DecumulateFirstZero(t, precip_cumulative, prev) ==
    IF t = 0 \/ ~prev.some
    THEN MapGrid(precip_cumulative, LAMBDA c : IF IsFinite(c) THEN Zero ELSE c)
    ELSE [i \in 1..Len(precip_cumulative) |->
            [j \in 1..Len(precip_cumulative[i]) |->
                FMaximum0(FScale(FSub(precip_cumulative[i][j], prev.grid[i][j]), 3))]]

\* interval precipitation (mm) from the cumulative grid (m) and the carried state
Decumulate(t, precip_cumulative, prev) ==
    IF t = 0 \/ ~prev.some
    THEN MapGrid(precip_cumulative, LAMBDA c : FScale(c, 3))
    ELSE [i \in 1..Len(precip_cumulative) |->
            [j \in 1..Len(precip_cumulative[i]) |->
                FMaximum0(FScale(FSub(precip_cumulative[i][j], prev.grid[i][j]), 3))]]

\* NextPrev storing the unit-converted grid instead of the raw one
NextPrevConverted(precip_cumulative) ==
    SomeGrid(MapGrid(precip_cumulative, LAMBDA c : FScale(c, 3)))

\* prev_precip_cumulative = precip_cumulative.copy()
NextPrev(precip_cumulative) == SomeGrid(precip_cumulative)

wind_speed(u, v) == FSqrt(FAdd(FSquare(u), FSquare(v)))

\* wind_direction in the "towards" convention: 90 - atan2 in place of 270 - atan2
wind_direction_towards(u, v) ==
    IF isnan(u) \/ isnan(v) THEN NaN
    ELSE Num((90 - Atan2Deg(v, u)) % 360, 0)

wind_direction(u, v) ==
    IF isnan(u) \/ isnan(v) THEN NaN
    ELSE Num((270 - Atan2Deg(v, u)) % 360, 0)

\* Cells in column-major order (longitude outer, latitude inner)
CellsColumnMajor(nlat, nlon) ==
    [n \in 1..(nlat * nlon) |-> <<((n - 1) % nlat) + 1, ((n - 1) \div nlat) + 1>>]

\* the grid cells in row-major order (latitude outer, longitude inner)
Cells(nlat, nlon) ==
    [n \in 1..(nlat * nlon) |-> <<((n - 1) \div nlon) + 1, ((n - 1) % nlon) + 1>>]

\* Pm25Emitted without the np.isinf test
Pm25EmittedNoInf(pm25_val) == ~isnan(pm25_val)

Pm25Emitted(pm25_val) == ~isnan(pm25_val) /\ ~isinf(pm25_val)
WindEmitted(u_val, v_val) == ~isnan(u_val) /\ ~isnan(v_val)
\* PrecipEmitted with "precip_val >= 0" in place of "precip_val > 0"
PrecipEmittedNonNegative(precip_val) ==
    ~isnan(precip_val) /\ ~isinf(precip_val) /\ ~FLess(precip_val, Zero)

PrecipEmitted(precip_val) ==
    ~isnan(precip_val) /\ ~isinf(precip_val) /\ FGreater(precip_val, Zero)

ValuesOf(list) == [n \in 1..Len(list) |-> list[n].value]
SpeedsOf(list) == [n \in 1..Len(list) |-> list[n].speed]

\* Pm25Stats with the mean taken from np.median
Pm25StatsMeanOfMedian(list) ==
    IF list # <<>>
    THEN [min |-> FMin(ValuesOf(list)), max |-> FMax(ValuesOf(list)),
          mean |-> FMedian(ValuesOf(list)), median |-> FMedian(ValuesOf(list))]
    ELSE [min |-> Zero, max |-> Zero, mean |-> Zero, median |-> Zero]

Pm25Stats(list) ==
    IF list # <<>>
    THEN [min |-> FMin(ValuesOf(list)), max |-> FMax(ValuesOf(list)),
          mean |-> FMean(ValuesOf(list)), median |-> FMedian(ValuesOf(list))]
    ELSE [min |-> Zero, max |-> Zero, mean |-> Zero, median |-> Zero]

WindStats(list) ==
    IF list # <<>>
    THEN [min_speed |-> FMin(SpeedsOf(list)), max_speed |-> FMax(SpeedsOf(list)),
          mean_speed |-> FMean(SpeedsOf(list))]
    ELSE [min_speed |-> Zero, max_speed |-> Zero, mean_speed |-> Zero]

PrecipStats(list) ==
    IF list # <<>>
    THEN [min |-> FMin(ValuesOf(list)), max |-> FMax(ValuesOf(list)),
          mean |-> FMean(ValuesOf(list)), total |-> FSum(ValuesOf(list))]
    ELSE [min |-> Zero, max |-> Zero, mean |-> Zero, total |-> Zero]

Pm25List(la, lo, pm25_values) ==
    LET cs == Cells(Len(la), Len(lo))
        pts == [n \in 1..Len(cs) |->
                  [lat |-> la[cs[n][1]], lon |-> lo[cs[n][2]],
                   value |-> pm25_values[cs[n][1]][cs[n][2]]]]
    IN  SelectSeq(pts, LAMBDA pt : Pm25Emitted(pt.value))

WindList(la, lo, u_values, v_values) ==
    LET cs == Cells(Len(la), Len(lo))
        pts == [n \in 1..Len(cs) |->
                  LET u == u_values[cs[n][1]][cs[n][2]]
                      v == v_values[cs[n][1]][cs[n][2]]
                  IN  [lat |-> la[cs[n][1]], lon |-> lo[cs[n][2]],
                       u |-> u, v |-> v,
                       speed |-> wind_speed(u, v),
                       direction |-> wind_direction(u, v)]]
    IN  SelectSeq(pts, LAMBDA pt : WindEmitted(pt.u, pt.v))

PrecipList(la, lo, pv) ==
    IF ~pv.some THEN <<>>
    ELSE
    LET cs == Cells(Len(la), Len(lo))
        pts == [n \in 1..Len(cs) |->
                  [lat |-> la[cs[n][1]], lon |-> lo[cs[n][2]],
                   value |-> pv.grid[cs[n][1]][cs[n][2]]]]
    IN  SelectSeq(pts, LAMBDA pt : PrecipEmitted(pt.value))

\* the record appended for time index t
TimestepData(ds, t, pm25_list, wind_list, precip_list, pv) ==
    LET base == [index |-> t,
                 timestamp |-> IsoFormat(ds.times[t + 1]),
                 pm25 |-> [unit |-> "ug/m3", data_points |-> Len(pm25_list),
                           data |-> pm25_list, statistics |-> Pm25Stats(pm25_list)],
                 wind |-> [unit |-> "m/s", data_points |-> Len(wind_list),
                           data |-> wind_list, statistics |-> WindStats(wind_list)]]
    IN  IF pv.some
        THEN [index |-> base.index, timestamp |-> base.timestamp,
              pm25 |-> base.pm25, wind |-> base.wind,
              precipitation |-> [unit |-> "mm (6-hourly)",
                                 data_points |-> Len(precip_list),
                                 data |-> precip_list,
                                 statistics |-> PrecipStats(precip_list)]]
        ELSE base

\* one pass of "for t_idx, time_val in enumerate(times)"
ProcessTimestep ==
    LET ds == datasets[self_p]
        pm25_values == MapGrid(SliceValues(ds, pm25_var, t_idx, lat_idx, lon_idx),
                               LAMBDA x : FScale(x, 9))
        u_values == SliceValues(ds, u_wind_var, t_idx, lat_idx, lon_idx)
        v_values == SliceValues(ds, v_wind_var, t_idx, lat_idx, lon_idx)
        precip_cumulative ==
            IF precip_var # None
            THEN SliceValues(ds, precip_var, t_idx, lat_idx, lon_idx)
            ELSE <<>>
        pv == IF precip_var # None
              THEN SomeGrid(Decumulate(t_idx, precip_cumulative, prev_precip_cumulative))
              ELSE NoGrid
        pm25_list == Pm25List(lats, lons, pm25_values)
        wind_list == WindList(lats, lons, u_values, v_values)
        precip_list == PrecipList(lats, lons, pv)
    IN
    /\ pc = "loop"
    /\ t_idx < Len(ds.times)
    /\ GridsTwoDimensional(ds)
    /\ precip_values' = pv
    /\ precip_log' = Append(precip_log, pv)
    /\ prev_precip_cumulative' =
           IF precip_var # None THEN NextPrev(precip_cumulative)
           ELSE prev_precip_cumulative
    /\ timesteps' = Append(timesteps,
                           TimestepData(ds, t_idx, pm25_list, wind_list, precip_list, pv))
    /\ t_idx' = t_idx + 1
    /\ UNCHANGED <<datasets, calls_left, pc, self_p, sample_rate,
                   pm25_var, u_wind_var, v_wind_var, precip_var,
                   lat_coord, lon_coord, time_coord, lat_idx, lon_idx, lats, lons,
                   returned, un_vars, st_vars, mn_vars, ot_vars>>

\* the first pass of the loop raising ValueError: a variable kept an extra axis,
\* so values[i, j] of its slice is an array of two or more elements and the
\* test "not np.isnan(...)" of lines 194, 202 or 214 has no truth value (the
\* grid has a cell, and each axis left in the slice has two or more entries)
TimestepShapeError ==
    LET ds == datasets[self_p] IN
    /\ pc = "loop"
    /\ t_idx < Len(ds.times)
    /\ ~GridsTwoDimensional(ds)
    /\ Len(lat_idx) >= 1 /\ Len(lon_idx) >= 2
    /\ pc' = "raised"
    /\ UNCHANGED <<datasets, calls_left, self_p, sample_rate,
                   pm25_var, u_wind_var, v_wind_var, precip_var,
                   lat_coord, lon_coord, time_coord, lat_idx, lon_idx, lats, lons,
                   t_idx, prev_precip_cumulative, precip_values, precip_log, timesteps, returned,
                   un_vars, st_vars, mn_vars, ot_vars>>

\* the result dictionary built after the loop
ParseResult(ts) == [metadata |-> [num_timesteps |-> Len(ts)], timesteps |-> ts]

\* the loop body stage by stage. The three isel(...).values reads of a pass
\* (lines 141-142, 148-151, 161-162) form the extract stage, the unit
\* conversion and the decumulation (145, 164-178) the convert stage; the
\* conversions are pure and no read depends on them. Wind speed and direction
\* (154-156) are computed per point where the collect stage uses them.
NoWork ==
    [pm25_raw |-> <<>>, u_values |-> <<>>, v_values |-> <<>>,
     precip_cumulative |-> <<>>, pm25_values |-> <<>>, pv |-> NoGrid,
     pm25_list |-> <<>>, wind_list |-> <<>>, precip_list |-> <<>>]

StageOrder == <<"extract", "convert", "collect", "statistics">>

\* the stage after stage sg; after the last one the next pass starts
NextStage(sg) ==
    LET k == CHOOSE k \in 1..Len(StageOrder) : StageOrder[k] = sg
    IN  StageOrder[(k % Len(StageOrder)) + 1]

Logged(sg) == Append(stage_log, [t |-> t_idx, stage |-> sg])

StageExtract ==
    LET ds == datasets[self_p] IN
    /\ pc = "loop" /\ stage = "extract"
    /\ t_idx < Len(ds.times)
    /\ work' = [NoWork EXCEPT
                   !.pm25_raw = SliceValues(ds, pm25_var, t_idx, lat_idx, lon_idx),
                   !.u_values = SliceValues(ds, u_wind_var, t_idx, lat_idx, lon_idx),
                   !.v_values = SliceValues(ds, v_wind_var, t_idx, lat_idx, lon_idx),
                   !.precip_cumulative =
                       IF precip_var # None
                       THEN SliceValues(ds, precip_var, t_idx, lat_idx, lon_idx)
                       ELSE <<>>]
    /\ stage' = NextStage(stage)
    /\ stage_log' = Logged(stage)
    /\ UNCHANGED <<nc_vars, un_vars, mn_vars, ot_vars>>

StageConvert ==
    LET pv == IF precip_var # None
              THEN SomeGrid(Decumulate(t_idx, work.precip_cumulative,
                                       prev_precip_cumulative))
              ELSE NoGrid
    IN
    /\ pc = "loop" /\ stage = "convert"
    /\ work' = [work EXCEPT
                   !.pm25_values = MapGrid(work.pm25_raw, LAMBDA x : FScale(x, 9)),
                   !.pv = pv]
    /\ precip_values' = pv
    /\ precip_log' = Append(precip_log, pv)
    /\ prev_precip_cumulative' =
           IF precip_var # None THEN NextPrev(work.precip_cumulative)
           ELSE prev_precip_cumulative
    /\ stage' = NextStage(stage)
    /\ stage_log' = Logged(stage)
    /\ UNCHANGED <<datasets, calls_left, pc, self_p, sample_rate,
                   pm25_var, u_wind_var, v_wind_var, precip_var,
                   lat_coord, lon_coord, time_coord, lat_idx, lon_idx, lats, lons,
                   t_idx, timesteps, returned, un_vars, mn_vars, ot_vars>>

StageCollect ==
    /\ pc = "loop" /\ stage = "collect"
    /\ GridsTwoDimensional(datasets[self_p])
    /\ work' = [work EXCEPT
                   !.pm25_list = Pm25List(lats, lons, work.pm25_values),
                   !.wind_list = WindList(lats, lons, work.u_values, work.v_values),
                   !.precip_list = PrecipList(lats, lons, work.pv)]
    /\ stage' = NextStage(stage)
    /\ stage_log' = Logged(stage)
    /\ UNCHANGED <<nc_vars, un_vars, mn_vars, ot_vars>>

\* statistics, the record of the pass and its append; the next pass follows
StageStatistics ==
    /\ pc = "loop" /\ stage = "statistics"
    /\ timesteps' = Append(timesteps,
                           TimestepData(datasets[self_p], t_idx, work.pm25_list,
                                        work.wind_list, work.precip_list, work.pv))
    /\ t_idx' = t_idx + 1
    /\ work' = NoWork
    /\ stage' = NextStage(stage)
    /\ stage_log' = Logged(stage)
    /\ UNCHANGED <<datasets, calls_left, pc, self_p, sample_rate,
                   pm25_var, u_wind_var, v_wind_var, precip_var,
                   lat_coord, lon_coord, time_coord, lat_idx, lon_idx, lats, lons,
                   prev_precip_cumulative, precip_values, precip_log, returned, un_vars, mn_vars, ot_vars>>

\* ReturnedOnFailure handing the caller the timesteps built before the failure
ReturnedOnFailurePartial(ret, ts) ==
    Append(ret, [parser |-> self_p, sample_rate |-> sample_rate,
                 result |-> ParseResult(ts)])

\* what the caller holds after an exception left parse: the loop body has no
\* handler, so the exception propagates and nothing is returned
ReturnedOnFailure(ret, ts) == ret

\* a read of the extract stage raises (the file is read lazily, slice by slice)
ExtractFails ==
    /\ pc = "loop" /\ stage = "extract"
    /\ t_idx < Len(datasets[self_p].times)
    /\ pc' = "raised"
    /\ returned' = ReturnedOnFailure(returned, timesteps)
    /\ UNCHANGED <<datasets, calls_left, self_p, sample_rate,
                   pm25_var, u_wind_var, v_wind_var, precip_var,
                   lat_coord, lon_coord, time_coord, lat_idx, lon_idx, lats, lons,
                   t_idx, prev_precip_cumulative, precip_values, precip_log, timesteps,
                   un_vars, st_vars, mn_vars, ot_vars>>

\* parse() returning its result to the caller
ParseReturn ==
    /\ pc = "loop"
    /\ t_idx = Len(datasets[self_p].times)
    /\ returned' = Append(returned, [parser |-> self_p, sample_rate |-> sample_rate,
                                     result |-> ParseResult(timesteps)])
    /\ pc' = "idle"
    /\ UNCHANGED <<datasets, calls_left, self_p, sample_rate,
                   pm25_var, u_wind_var, v_wind_var, precip_var,
                   lat_coord, lon_coord, time_coord, lat_idx, lon_idx, lats, lons,
                   t_idx, prev_precip_cumulative, precip_values, precip_log, timesteps, un_vars, st_vars, mn_vars, ot_vars>>

-----------------------------------------------------------------------------
(* UnifiedParser.parse.                                                    *)

MaxPrimary   == 2      \* most primary (CAMS) timesteps given to the aligner
MaxSecondary == 3      \* most secondary (ECMWF) timestamps given to the aligner

\* instants (minutes) the primary and the secondary time axis can hold
PrimaryTimes   == {0, 59, 60, 125}
SecondaryTimes == {0, 30, 119, 185}

SeqsUpTo(S, n) == UNION { [1..k -> S] : k \in 0..n }

\* a JSON null in a secondary series
NoneVal == [k |-> "none", m |-> 0, e |-> 0]

\* primary timesteps as NetCDFParser.parse shapes them, one per instant
CamsTimesteps(instants) ==
    [n \in 1..Len(instants) |->
        [index |-> n - 1,
         timestamp |-> IsoFormat(instants[n]),
         pm25 |-> [unit |-> "ug/m3", data_points |-> 1,
                   data |-> <<[lat |-> 50, lon |-> 10, value |-> Num(n, 0)]>>,
                   statistics |-> [min |-> Num(n, 0), max |-> Num(n, 0),
                                   mean |-> Num(n, 0), median |-> Num(n, 0)]],
         wind |-> [unit |-> "m/s", data_points |-> 0, data |-> <<>>,
                   statistics |-> WindStats(<<>>)]]]

\* the secondary payload's points: per point one value per secondary timestamp
EcmwfPoints(n) ==
    << [lat |-> 50, lon |-> 10,
        precipitation |-> [q \in 1..n |-> IF q = 3 THEN NInf ELSE Num(q, -1)]],
       [lat |-> 50, lon |-> 11,
        precipitation |-> [q \in 1..n |->
            IF q = 1 THEN NoneVal ELSE IF q = 2 THEN NaN
            ELSE IF q = 3 THEN PInf ELSE Zero]] >>

\* WithinTolerance with "time_diff <= 1"
WithinToleranceInclusive(cams_time, ecmwf_time) ==
    Abs(TotalSeconds(cams_time, ecmwf_time)) <= 1 * SecondsPerHour

\* time_diff < 1, with time_diff = abs((cams_time - ecmwf_time).total_seconds() / 3600)
WithinTolerance(cams_time, ecmwf_time) ==
    Abs(TotalSeconds(cams_time, ecmwf_time)) < 1 * SecondsPerHour

RECURSIVE ScanFrom(_, _, _)
\* the scan "for idx, ecmwf_time_str in enumerate(ecmwf_timestamps)" from idx on:
\* <<idx>> (0-based) at the first match, <<>> (None) when the scan ends
ScanFrom(cams_time, stamps, idx) ==
    IF idx >= Len(stamps) THEN <<>>
    ELSE IF WithinTolerance(cams_time, FromIsoFormat(stamps[idx + 1])) THEN <<idx>>
    ELSE ScanFrom(cams_time, stamps, idx + 1)

MatchingEcmwfIdx(cams_time, stamps) == ScanFrom(cams_time, stamps, 0)

SecondaryEmitted(precip_val) == precip_val.k # "none" /\ ~isnan(precip_val)

PrecipDataList(points, m) ==
    IF m = <<>> THEN <<>>
    ELSE LET pts == [n \in 1..Len(points) |->
                       [lat |-> points[n].lat, lon |-> points[n].lon,
                        value |-> points[n].precipitation[m[1] + 1]]]
         IN  SelectSeq(pts, LAMBDA pt : SecondaryEmitted(pt.value))

\* UnifiedPrecipStats without the empty-list guard: numpy's mean of nothing is NaN
UnifiedPrecipStatsUnguarded(list) ==
    IF list # <<>>
    THEN [min |-> FMin(ValuesOf(list)), max |-> FMax(ValuesOf(list)),
          mean |-> FMean(ValuesOf(list)), total |-> FSum(ValuesOf(list))]
    ELSE [min |-> NaN, max |-> NaN, mean |-> NaN, total |-> Zero]

\* the precipitation statistics of a merged timestep
UnifiedPrecipStats(list) ==
    IF list # <<>>
    THEN [min |-> FMin(ValuesOf(list)), max |-> FMax(ValuesOf(list)),
          mean |-> FMean(ValuesOf(list)), total |-> FSum(ValuesOf(list))]
    ELSE [min |-> Zero, max |-> Zero, mean |-> Zero, total |-> Zero]

\* ElapsedHours with the operands of the subtraction swapped
ElapsedHoursSwapped(cams_time, first_time) ==
    IntTrunc(TotalSeconds(first_time, cams_time), SecondsPerHour)

\* int((cams_time - first_time).total_seconds() / 3600)
ElapsedHours(cams_time, first_time) ==
    IntTrunc(TotalSeconds(cams_time, first_time), SecondsPerHour)

ForecastHour(built, cams_time, first_time) ==
    IF Len(built) = 0 THEN 0 ELSE ElapsedHours(cams_time, first_time)

UnifiedBegin ==
    /\ u_pc = "idle"
    /\ u_pc' = "loop"
    /\ u_pos' = 0
    /\ matched' = <<>>
    /\ unified_timesteps' = <<>>
    /\ UNCHANGED <<cams_timesteps, ecmwf_timestamps, ecmwf_precip_data,
                   unified_result, nc_vars, st_vars, mn_vars, ot_vars>>

\* one pass of "for cams_ts in cams_timesteps"
UnifiedStep ==
    /\ u_pc = "loop"
    /\ u_pos < Len(cams_timesteps)
    /\ LET cams_ts == cams_timesteps[u_pos + 1]
           cams_time == FromIsoFormat(cams_ts.timestamp)
           first_time == FromIsoFormat(cams_timesteps[1].timestamp)
           matching_ecmwf_idx == MatchingEcmwfIdx(cams_time, ecmwf_timestamps)
           precip_data_list == PrecipDataList(ecmwf_precip_data, matching_ecmwf_idx)
           unified_ts ==
               [index |-> cams_ts.index,
                forecast_hour |-> ForecastHour(unified_timesteps, cams_time, first_time),
                valid_time |-> cams_ts.timestamp,
                pm25 |-> cams_ts.pm25,
                wind |-> cams_ts.wind,
                precipitation |-> [unit |-> "mm",
                                   data_points |-> Len(precip_data_list),
                                   data |-> precip_data_list,
                                   statistics |-> UnifiedPrecipStats(precip_data_list)]]
       IN  /\ matched' = Append(matched, matching_ecmwf_idx)
           /\ unified_timesteps' = Append(unified_timesteps, unified_ts)
    /\ u_pos' = u_pos + 1
    /\ UNCHANGED <<cams_timesteps, ecmwf_timestamps, ecmwf_precip_data,
                   u_pc, unified_result, nc_vars, st_vars, mn_vars, ot_vars>>

\* UnifiedResult with the reference time taken from the last merged timestep
UnifiedResultLastTime(ts) ==
    [metadata |-> [forecast_reference_time |->
                       IF ts # <<>> THEN <<ts[Len(ts)].valid_time>> ELSE <<>>,
                   num_timesteps |-> Len(ts),
                   forecast_hours |-> [n \in 1..Len(ts) |-> ts[n].forecast_hour]],
     timesteps |-> ts]

\* the result dict of UnifiedParser.parse (<<>> stands for None)
UnifiedResult(ts) ==
    [metadata |-> [forecast_reference_time |->
                       IF ts # <<>> THEN <<ts[1].valid_time>> ELSE <<>>,
                   num_timesteps |-> Len(ts),
                   forecast_hours |-> [n \in 1..Len(ts) |-> ts[n].forecast_hour]],
     timesteps |-> ts]

UnifiedReturn ==
    /\ u_pc = "loop"
    /\ u_pos = Len(cams_timesteps)
    /\ unified_result' = UnifiedResult(unified_timesteps)
    /\ u_pc' = "done"
    /\ UNCHANGED <<cams_timesteps, ecmwf_timestamps, ecmwf_precip_data,
                   u_pos, matched, unified_timesteps, nc_vars, st_vars, mn_vars, ot_vars>>

-----------------------------------------------------------------------------
(* backend/main.py main(): steps 2 and 3, inside the try block.            *)

\* the handle after "except Exception" caught what parse raised: the handler
\* logs, prints the traceback and returns 1; it does not call close()
HandleAfterRaise(h) == h

\* nc_parser = NetCDFParser(cams_nc_path): xr.open_dataset succeeds
MainOpen ==
    /\ main_pc = "start"
    /\ handle' = "open"
    /\ main_pc' = "parse"
    /\ calls_left' = 1
    /\ UNCHANGED <<datasets, pc, self_p, sample_rate,
                   pm25_var, u_wind_var, v_wind_var, precip_var,
                   lat_coord, lon_coord, time_coord, lat_idx, lon_idx, lats, lons,
                   t_idx, prev_precip_cumulative, precip_values, precip_log, timesteps, returned,
                   main_ret, un_vars, st_vars, ot_vars>>

\* the fetch of step 1 or xr.open_dataset raises: no handle was opened
MainOpenFails ==
    /\ main_pc = "start"
    /\ main_pc' = "done"
    /\ main_ret' = 1
    /\ UNCHANGED <<handle, nc_vars, un_vars, st_vars, ot_vars>>

\* nc_parser.close(), reached when parse returned
MainClose ==
    /\ main_pc = "parse"
    /\ pc = "idle" /\ calls_left = 0
    /\ handle' = "closed"
    /\ main_pc' = "sources"
    /\ UNCHANGED <<main_ret, nc_vars, un_vars, st_vars, ot_vars>>

\* "except Exception" catching what parse raised: return 1
MainExcept ==
    /\ main_pc = "parse"
    /\ pc = "raised"
    /\ handle' = HandleAfterRaise(handle)
    /\ main_pc' = "done"
    /\ main_ret' = 1
    /\ UNCHANGED <<nc_vars, un_vars, st_vars, ot_vars>>

\* step 3 and the save: return 0, or return 1 when one of them raises
MainFinish(code) ==
    /\ main_pc = "sources"
    /\ main_pc' = "done"
    /\ main_ret' = code
    /\ UNCHANGED <<handle, nc_vars, un_vars, st_vars, ot_vars>>

-----------------------------------------------------------------------------
(* parse_data.py AirQualityDataParser.parse_pm25_to_json.                  *)

\* the optional argument max_points_per_time: None, or an int
NoLimit == [some |-> FALSE, n |-> 0]
LimitOf(n) == [some |-> TRUE, n |-> n]

\* Python truth value of an optional int: None and 0 are false
Truthy(mp) == mp.some /\ mp.n # 0

\* "max_points_per_time and len(data_points) >= max_points_per_time"
LimitReached(mp, data_points) == Truthy(mp) /\ Len(data_points) >= mp.n

\* the point appended for a finite value of a variable whose unit holds "kg"
AqPoint(lat, lon, value) == [lat |-> lat, lon |-> lon, value |-> FScale(value, 9)]

\* the inner loop "for j, lon in enumerate(lons)" of row i, from column j on
RECURSIVE ScanRow(_, _, _, _, _, _, _)
ScanRow(values, la, lo, mp, i, j, data_points) ==
    IF j > Len(lo) THEN data_points
    ELSE IF isnan(values[i][j]) \/ isinf(values[i][j])
         THEN ScanRow(values, la, lo, mp, i, j + 1, data_points)
    ELSE LET appended == Append(data_points, AqPoint(la[i], lo[j], values[i][j]))
         IN  IF LimitReached(mp, appended) THEN appended
             ELSE ScanRow(values, la, lo, mp, i, j + 1, appended)

\* the outer loop "for i, lat in enumerate(lats)", from row i on
RECURSIVE ScanGrid(_, _, _, _, _, _)
ScanGrid(values, la, lo, mp, i, data_points) ==
    IF i > Len(la) THEN data_points
    ELSE LET after_row == ScanRow(values, la, lo, mp, i, 1, data_points)
         IN  IF LimitReached(mp, after_row) THEN after_row
             ELSE ScanGrid(values, la, lo, mp, i + 1, after_row)

\* the variable parse_pm25_to_json reads when variable_name is None
AqVariable(ds) == DetectFirst(AqNames, ds.data_vars)

\* the call parse_pm25_to_json(path, None, rate, mp) on a dataset that holds a
\* PM2.5 variable over forecast_period, latitude, longitude
AqBegin(rate, mp) ==
    /\ aq_pc = "idle"
    /\ rate >= 1
    /\ AqVariable(datasets[1]) # None
    /\ aq_sample_rate' = rate
    /\ max_points_per_time' = mp
    /\ time_idx' = 0
    /\ forecasts' = <<>>
    /\ aq_pc' = "loop"
    /\ UNCHANGED <<nc_vars, un_vars, st_vars, mn_vars, ps_vars, ec_vars>>

\* one iteration of "for time_idx, time_val in enumerate(times)"
AqTimestep ==
    /\ aq_pc = "loop"
    /\ time_idx < Len(datasets[1].times)
    /\ LET ds == datasets[1]
           li == SliceIdx(Len(ds.lat), aq_sample_rate)
           lo == SliceIdx(Len(ds.lon), aq_sample_rate)
           la == [q \in 1..Len(li) |-> ds.lat[li[q]]]
           ln == [q \in 1..Len(lo) |-> ds.lon[lo[q]]]
           values == SliceValues(ds, AqVariable(ds), time_idx, li, lo)
           data_points == ScanGrid(values, la, ln, max_points_per_time, 1, <<>>)
       IN  forecasts' = Append(forecasts,
               [timestep_index |-> time_idx,
                data_points    |-> Len(data_points),
                data           |-> data_points])
    /\ time_idx' = time_idx + 1
    /\ UNCHANGED <<aq_pc, aq_sample_rate, max_points_per_time,
                   nc_vars, un_vars, st_vars, mn_vars, ps_vars, ec_vars>>

\* the loop is over: the result is saved and returned
AqReturn ==
    /\ aq_pc = "loop"
    /\ time_idx = Len(datasets[1].times)
    /\ aq_pc' = "done"
    /\ UNCHANGED <<aq_sample_rate, max_points_per_time, time_idx, forecasts,
                   nc_vars, un_vars, st_vars, mn_vars, ps_vars, ec_vars>>

-----------------------------------------------------------------------------
(* backend/main.py fetch_pollution_sources: the fire entries.              *)

MaxRows      == 2      \* data rows of the CSV answered by the FIRMS API
MaxFileFires == 2      \* entries of the "fires" list of data/fire_data.json

\* a CSV data row: "ok" parses, "low" is of low confidence, "bad" lacks a
\* parsable latitude
RowKinds == {"ok", "low", "bad"}

\* an entry of a fires list before normalisation: whether it holds the keys
\* 'lat' and 'lon', and the CSV row or file position it came from
RawFire(has_lat, id) == [has_lat |-> has_lat, id |-> id]

\* fetch_global_fires that appends a dict for a row whose latitude did not parse
fetch_global_fires_keep_bad(rows) ==
    LET idx == SelectSeq([n \in 1..Len(rows) |-> n], LAMBDA n : rows[n] # "low")
    IN  [q \in 1..Len(idx) |-> RawFire(rows[idx[q]] = "ok", idx[q])]

\* FIRMSFetcher.fetch_global_fires on a CSV answer: low-confidence rows are
\* skipped, a row that fails to parse is skipped, every dict appended holds
\* 'lat' and 'lon'
fetch_global_fires(rows) ==
    LET idx == SelectSeq([n \in 1..Len(rows) |-> n], LAMBDA n : rows[n] = "ok")
    IN  [q \in 1..Len(idx) |-> RawFire(TRUE, idx[q])]

\* the dict appended to fires for one raw entry (origin is a history tag)
Normalized(origin, fire) == [type |-> "fire", origin |-> origin, id |-> fire.id]

\* the entries of a list up to, not including, the first that lacks 'lat'
RECURSIVE GoodPrefix(_)
GoodPrefix(raw) ==
    IF raw = <<>> \/ ~Head(raw).has_lat THEN <<>>
    ELSE <<Head(raw)>> \o GoodPrefix(Tail(raw))

\* FIRMSFetcher() or fetch_global_fires raises (no key, timeout, HTTP error)
PsFetchRaises ==
    /\ ps_pc = "api"
    /\ firms_fails
    /\ ps_pc' = "fallback"
    /\ UNCHANGED <<firms_fails, firms_rows, save_fails, fallback_file,
                   fires_raw, fire_pos, fires, fires_loaded,
                   nc_vars, un_vars, st_vars, mn_vars, aq_vars, ec_vars>>

\* fires_raw = firms_fetcher.fetch_global_fires(days=1) returns
PsFetch ==
    /\ ps_pc = "api"
    /\ ~firms_fails
    /\ fires_raw' = fetch_global_fires(firms_rows)
    /\ fire_pos' = 0
    /\ ps_pc' = "normalize"
    /\ UNCHANGED <<firms_fails, firms_rows, save_fails, fallback_file,
                   fires, fires_loaded,
                   nc_vars, un_vars, st_vars, mn_vars, aq_vars, ec_vars>>

\* one iteration of "for fire in fires_raw": fire['lat'] raises KeyError on an
\* entry without the key, which ends the try block
PsNormalize ==
    /\ ps_pc = "normalize"
    /\ fire_pos < Len(fires_raw)
    /\ IF fires_raw[fire_pos + 1].has_lat
       THEN /\ fires' = Append(fires, Normalized("api", fires_raw[fire_pos + 1]))
            /\ fire_pos' = fire_pos + 1
            /\ ps_pc' = "normalize"
       ELSE /\ ps_pc' = "fallback"
            /\ UNCHANGED <<fires, fire_pos>>
    /\ UNCHANGED <<firms_fails, firms_rows, save_fails, fallback_file,
                   fires_raw, fires_loaded,
                   nc_vars, un_vars, st_vars, mn_vars, aq_vars, ec_vars>>

\* fires_loaded = True, then the raw list is saved for a later fallback; a
\* failure of the save is caught by the same except clause
PsLoadedAndSave ==
    /\ ps_pc = "normalize"
    /\ fire_pos = Len(fires_raw)
    /\ fires_loaded' = TRUE
    /\ fallback_file' = IF save_fails THEN fallback_file
                        ELSE [exists |-> TRUE, fires |-> fires_raw]
    /\ ps_pc' = "fallback"
    /\ UNCHANGED <<firms_fails, firms_rows, save_fails, fires_raw, fire_pos, fires,
                   nc_vars, un_vars, st_vars, mn_vars, aq_vars, ec_vars>>

\* "if not fires_loaded and os.path.exists(fire_raw_path)": the file's entries
\* are appended to fires until one raises
PsFallback ==
    /\ ps_pc = "fallback"
    /\ IF ~fires_loaded /\ fallback_file.exists
       THEN LET good == GoodPrefix(fallback_file.fires)
            IN  /\ fires' = fires \o [n \in 1..Len(good) |-> Normalized("file", good[n])]
                /\ fires_loaded' = (Len(good) = Len(fallback_file.fires))
       ELSE UNCHANGED <<fires, fires_loaded>>
    /\ ps_pc' = "done"
    /\ UNCHANGED <<firms_fails, firms_rows, save_fails, fallback_file,
                   fires_raw, fire_pos,
                   nc_vars, un_vars, st_vars, mn_vars, aq_vars, ec_vars>>

-----------------------------------------------------------------------------
(* backend/fetchers/ecmwf_fetcher.py ECMWFFetcher.fetch: the sample grid.   *)
(* Coordinates are counted in half degrees (lat_step = lon_step = 0.5).     *)

max_points == 1000

\* int(np.sqrt(n))
IntSqrt(n) == CHOOSE r \in 0..n : r * r <= n /\ (r + 1) * (r + 1) > n

\* np.arange(lo, hi + step, step) for bounds that are multiples of the step
ARange(lo, hi) == [k \in 1..(IF hi >= lo THEN hi - lo + 1 ELSE 0) |-> lo + k - 1]

\* s[::k] for k >= 1
Stride(s, k) == [q \in 1..((Len(s) + k - 1) \div k) |-> s[1 + (q - 1) * k]]

Max2(a, b) == IF a >= b THEN a ELSE b

\* lat_sample, lon_sample = max(1, len(axis) // int(np.sqrt(max_points)))
SampleStep(n) == Max2(1, n \div IntSqrt(max_points))

\* lats and lons are laid over the bounding box [N, W, S, E]
EcGrid ==
    /\ ec_pc = "start"
    /\ ec_lats' = ARange(bbox[3], bbox[1])
    /\ ec_lons' = ARange(bbox[2], bbox[4])
    /\ ec_pc' = "grid"
    /\ UNCHANGED <<bbox, nc_vars, un_vars, st_vars, mn_vars, aq_vars, ps_vars>>

\* "if len(lats) * len(lons) > max_points": the axes are sampled
EcSample ==
    /\ ec_pc = "grid"
    /\ IF Len(ec_lats) * Len(ec_lons) > max_points
       THEN /\ ec_lats' = Stride(ec_lats, SampleStep(Len(ec_lats)))
            /\ ec_lons' = Stride(ec_lons, SampleStep(Len(ec_lons)))
       ELSE UNCHANGED <<ec_lats, ec_lons>>
    /\ ec_pc' = "sampled"
    /\ UNCHANGED <<bbox, nc_vars, un_vars, st_vars, mn_vars, aq_vars, ps_vars>>

-----------------------------------------------------------------------------
(* Specifications.                                                         *)

NetCDFIdle ==
    /\ self_p = 1
    /\ sample_rate = 1
    /\ pm25_var = None /\ u_wind_var = None /\ v_wind_var = None /\ precip_var = None
    /\ lat_coord = None /\ lon_coord = None /\ time_coord = None
    /\ lat_idx = <<>> /\ lon_idx = <<>> /\ lats = <<>> /\ lons = <<>>
    /\ t_idx = 0
    /\ prev_precip_cumulative = NoGrid
    /\ precip_values = NoGrid
    /\ precip_log = <<>>
    /\ timesteps = <<>>
    /\ returned = <<>>
    /\ stage = "extract"
    /\ work = NoWork
    /\ stage_log = <<>>

UnifiedOff ==
    /\ cams_timesteps = <<>>
    /\ ecmwf_timestamps = <<>>
    /\ ecmwf_precip_data = <<>>
    /\ u_pc = "off"
    /\ u_pos = 0
    /\ matched = <<>>
    /\ unified_timesteps = <<>>
    /\ unified_result = <<>>

\* main() of backend/main.py is not running; the parser objects hold open handles
MainOff ==
    /\ main_pc = "off"
    /\ handle = "open"
    /\ main_ret = -1

\* parse_pm25_to_json of parse_data.py is not running
AirQualityOff ==
    /\ aq_pc = "off"
    /\ aq_sample_rate = 1
    /\ max_points_per_time = NoLimit
    /\ time_idx = 0
    /\ forecasts = <<>>

\* fetch_pollution_sources of backend/main.py is not running
SourcesOff ==
    /\ ps_pc = "off"
    /\ firms_fails = FALSE
    /\ firms_rows = <<>>
    /\ save_fails = FALSE
    /\ fallback_file = [exists |-> FALSE, fires |-> <<>>]
    /\ fires_raw = <<>>
    /\ fire_pos = 0
    /\ fires = <<>>
    /\ fires_loaded = FALSE

\* ECMWFFetcher.fetch is not running
EcmwfOff ==
    /\ ec_pc = "off"
    /\ bbox = <<0, 0, 0, 0>>
    /\ ec_lats = <<>>
    /\ ec_lons = <<>>

OthersOff == AirQualityOff /\ SourcesOff /\ EcmwfOff

\* one parse call on a dataset opened by one parser object
Init ==
    /\ \E ds \in AllDatasets : datasets = [p \in Parsers |-> IF p = 1 THEN ds ELSE OtherDataset]
    /\ calls_left = 1
    /\ pc = "idle"
    /\ NetCDFIdle
    /\ MainOff
    /\ OthersOff
    /\ UnifiedOff

NetCDFNext ==
    \/ \E rate \in SampleRates : ParseBegin(1, rate)
    \/ \E rate \in SampleRates : ParseSchemaError(1, rate)
    \/ \E rate \in SampleRates : ParseEmptyLonError(1, rate)
    \/ ProcessTimestep
    \/ ParseReturn

Next == NetCDFNext

Spec == Init /\ [][Next]_vars

\* one UnifiedParser.parse call on drawn primary and secondary time axes
InitUnified ==
    /\ datasets = [p \in Parsers |-> OtherDataset]
    /\ calls_left = 0
    /\ pc = "off"
    /\ NetCDFIdle
    /\ MainOff
    /\ OthersOff
    /\ \E prim \in SeqsUpTo(PrimaryTimes, MaxPrimary) :
           cams_timesteps = CamsTimesteps(prim)
    /\ \E sec \in SeqsUpTo(SecondaryTimes, MaxSecondary) :
           /\ ecmwf_timestamps = [n \in 1..Len(sec) |-> IsoFormat(sec[n])]
           /\ ecmwf_precip_data = EcmwfPoints(Len(sec))
    /\ u_pc = "idle"
    /\ u_pos = 0
    /\ matched = <<>>
    /\ unified_timesteps = <<>>
    /\ unified_result = <<>>

NextUnified == UnifiedBegin \/ UnifiedStep \/ UnifiedReturn

SpecUnified == InitUnified /\ [][NextUnified]_vars


\* values of the cell under test in the repeated-call specification
CallVals == {Num(8, -4), Num(9, -4)}
CallDatasets ==
    { MkDataset(StdVars, StdDims, DefaultLonAxis, s) : s \in [1..NumTimes -> CallVals] }
    \cup { MkDataset({"pm2p5", "u10", "tp"}, StdDims, DefaultLonAxis, RisingSeries) }
CallRates == {1, 2}

\* up to MaxCalls parse calls, in any order, on two parser objects
InitCalls ==
    /\ \E ds \in CallDatasets : datasets = [p \in Parsers |-> IF p = 1 THEN ds ELSE OtherDataset]
    /\ calls_left = MaxCalls
    /\ pc = "idle"
    /\ NetCDFIdle
    /\ MainOff
    /\ OthersOff
    /\ UnifiedOff

NextCalls ==
    \/ \E p \in Parsers, rate \in CallRates : ParseBegin(p, rate)
    \/ \E p \in Parsers, rate \in CallRates : ParseSchemaError(p, rate)
    \/ ProcessTimestep
    \/ ParseReturn

SpecCalls == InitCalls /\ [][NextCalls]_vars

\* one parse call whose loop body runs stage by stage and whose reads can fail
InitStages ==
    /\ \E ds \in CallDatasets : datasets = [p \in Parsers |-> IF p = 1 THEN ds ELSE OtherDataset]
    /\ calls_left = 1
    /\ pc = "idle"
    /\ NetCDFIdle
    /\ MainOff
    /\ OthersOff
    /\ UnifiedOff

NextStages ==
    \/ \E rate \in CallRates : ParseBegin(1, rate)
    \/ \E rate \in CallRates : ParseSchemaError(1, rate)
    \/ StageExtract
    \/ ExtractFails
    \/ StageConvert
    \/ StageCollect
    \/ StageStatistics
    \/ ParseReturn

SpecStages == InitStages /\ [][NextStages]_vars

\* one run of main() on a file whose schema is drawn
InitMain ==
    /\ \E ds \in SchemaDatasets : datasets = [p \in Parsers |-> IF p = 1 THEN ds ELSE OtherDataset]
    /\ calls_left = 0
    /\ pc = "idle"
    /\ NetCDFIdle
    /\ UnifiedOff
    /\ main_pc = "start"
    /\ handle = "none"
    /\ main_ret = -1
    /\ OthersOff

NextMain ==
    \/ MainOpen
    \/ MainOpenFails
    \/ \E rate \in SampleRates : ParseBegin(1, rate)
    \/ \E rate \in SampleRates : ParseSchemaError(1, rate)
    \/ ProcessTimestep
    \/ ParseReturn
    \/ MainClose
    \/ MainExcept
    \/ \E code \in {0, 1} : MainFinish(code)

SpecMain == InitMain /\ [][NextMain]_vars

\* one parse call on a dataset whose variables carry extra axes
InitAxes ==
    /\ \E ds \in AxesDatasets : datasets = [p \in Parsers |-> IF p = 1 THEN ds ELSE OtherDataset]
    /\ calls_left = 1
    /\ pc = "idle"
    /\ NetCDFIdle
    /\ MainOff
    /\ OthersOff
    /\ UnifiedOff

NextAxes ==
    \/ \E rate \in CallRates : ParseBegin(1, rate)
    \/ \E rate \in CallRates : ParseAxisError(1, rate)
    \/ ProcessTimestep
    \/ TimestepShapeError
    \/ ParseReturn

SpecAxes == InitAxes /\ [][NextAxes]_vars

\* the dataset without its precipitation variable
WithoutPrecip(ds) ==
    [ds EXCEPT !.data_vars = @ \ {PrecipNames[i] : i \in 1..Len(PrecipNames)}]

\* one parse call on each of two parser objects, in either order: the first has
\* opened a dataset, the second the same dataset without precipitation
InitPair ==
    /\ \E ds \in CallDatasets :
           datasets = [p \in Parsers |-> IF p = 1 THEN ds ELSE WithoutPrecip(ds)]
    /\ calls_left = 2
    /\ pc = "idle"
    /\ NetCDFIdle
    /\ MainOff
    /\ OthersOff
    /\ UnifiedOff

SpecPair == InitPair /\ [][NextCalls]_vars


\* values the max_points_per_time argument can hold
MaxPointsVals == {NoLimit} \cup {LimitOf(n) : n \in {-1, 0, 1, 2, 3, 100}}

\* datasets parse_pm25_to_json finds a PM2.5 variable in
AqDatasets ==
    { ds \in SchemaDatasets : AqVariable(ds) # None /\ ds.dims = StdDims }
        \cup {ExampleDataset}

\* one parse_pm25_to_json call on a dataset
InitAq ==
    /\ \E ds \in AqDatasets : datasets = [p \in Parsers |-> ds]
    /\ calls_left = 0
    /\ pc = "idle"
    /\ NetCDFIdle
    /\ MainOff
    /\ UnifiedOff
    /\ SourcesOff
    /\ EcmwfOff
    /\ aq_pc = "idle"
    /\ aq_sample_rate = 1
    /\ max_points_per_time = NoLimit
    /\ time_idx = 0
    /\ forecasts = <<>>

NextAq ==
    \/ \E rate \in CallRates, mp \in MaxPointsVals : AqBegin(rate, mp)
    \/ AqTimestep
    \/ AqReturn

SpecAq == InitAq /\ [][NextAq]_vars

\* files data/fire_data.json can be: absent, or a list of entries
FallbackFiles ==
    {[exists |-> FALSE, fires |-> <<>>]} \cup
    { [exists |-> TRUE, fires |-> [n \in 1..Len(f) |-> RawFire(f[n], n)]] :
      f \in SeqsUpTo(BOOLEAN, MaxFileFires) }

\* one call of fetch_pollution_sources in an environment that is drawn
InitSources ==
    /\ datasets = [p \in Parsers |-> OtherDataset]
    /\ calls_left = 0
    /\ pc = "idle"
    /\ NetCDFIdle
    /\ MainOff
    /\ UnifiedOff
    /\ AirQualityOff
    /\ EcmwfOff
    /\ ps_pc = "api"
    /\ firms_fails \in BOOLEAN
    /\ firms_rows \in SeqsUpTo(RowKinds, MaxRows)
    /\ save_fails \in BOOLEAN
    /\ fallback_file \in FallbackFiles
    /\ fires_raw = <<>>
    /\ fire_pos = 0
    /\ fires = <<>>
    /\ fires_loaded = FALSE

NextSources ==
    \/ PsFetchRaises
    \/ PsFetch
    \/ PsNormalize
    \/ PsLoadedAndSave
    \/ PsFallback

SpecSources == InitSources /\ [][NextSources]_vars

\* bbox = [70, -10, 35, 40] (Europe), in half degrees
DefaultBbox == <<140, -20, 70, 80>>

\* northern and eastern edges, in half degrees, of boxes whose south-west corner
\* is (0, 0)
NorthEdges == {0, 9, 30, 31, 45, 60, 61, 92, 100, 123, 180}
EastEdges  == {0, 9, 30, 31, 45, 60, 61, 92, 100, 123, 180, 360}

Bboxes == { <<n, 0, 0, e>> : n \in NorthEdges, e \in EastEdges } \cup {DefaultBbox}

\* one call of ECMWFFetcher.fetch on a bounding box
InitEcmwf ==
    /\ datasets = [p \in Parsers |-> OtherDataset]
    /\ calls_left = 0
    /\ pc = "idle"
    /\ NetCDFIdle
    /\ MainOff
    /\ UnifiedOff
    /\ AirQualityOff
    /\ SourcesOff
    /\ ec_pc = "start"
    /\ bbox \in Bboxes
    /\ ec_lats = <<>>
    /\ ec_lons = <<>>

NextEcmwf == EcGrid \/ EcSample

SpecEcmwf == InitEcmwf /\ [][NextEcmwf]_vars

-----------------------------------------------------------------------------
(* Properties of NetCDFParser.parse.                                       *)

\* a parse call has processed at least one timestep of a dataset with precipitation
PrecipProcessed == pc \in {"loop", "idle"} /\ t_idx >= 1 /\ precip_var # None

\* the source's cumulative precipitation at sampled cell (i, j), time index t
CumAt(t, i, j) == DataAt(datasets[self_p], precip_var, t + 1, lat_idx[i], lon_idx[j])

\* a finite value counted in units of 10^-4
Units(x) == x.m * Pow10(x.e + 4)

Max0(n) == IF n > 0 THEN n ELSE 0

SampledCells == (1..Len(lat_idx)) \X (1..Len(lon_idx))

\* the interval value claimed for cell c at time index t, in units of 10^-4 mm,
\* defined when the cumulative values involved are finite
ClaimedInterval(t, c) ==
    IF t = 0 THEN Units(CumAt(0, c[1], c[2])) * 1000
    ELSE Max0((Units(CumAt(t, c[1], c[2])) - Units(CumAt(t - 1, c[1], c[2]))) * 1000)

CumFinite(t, c) ==
    /\ IsFinite(CumAt(t, c[1], c[2]))
    /\ t > 0 => IsFinite(CumAt(t - 1, c[1], c[2]))

CumHasNaN(t, c) ==
    \/ isnan(CumAt(t, c[1], c[2]))
    \/ t > 0 /\ isnan(CumAt(t - 1, c[1], c[2]))

\* C1: the interval precipitation computed for timestep t is cumulative[0]*1000
\* when t = 0 and max(0, (cumulative[t] - cumulative[t-1])*1000) when t > 0, for
\* every grid cell (a NaN cumulative value gives NaN)
C1_IntervalPrecipitation ==
    PrecipProcessed =>
        /\ precip_values.some
        /\ \A c \in SampledCells :
              LET v == precip_values.grid[c[1]][c[2]]
              IN  /\ CumFinite(t_idx - 1, c) =>
                        IsFinite(v) /\ Units(v) = ClaimedInterval(t_idx - 1, c)
                  /\ CumHasNaN(t_idx - 1, c) => isnan(v)

\* a timestep t > 0 where one cell rose, one cell fell and was clamped to 0
C1_Witness ==
    /\ PrecipProcessed
    /\ t_idx >= 2
    /\ \E c \in SampledCells :
           /\ CumFinite(t_idx - 1, c)
           /\ Units(CumAt(t_idx - 1, c[1], c[2])) > Units(CumAt(t_idx - 2, c[1], c[2]))
           /\ precip_values.grid[c[1]][c[2]] = Num(1, -1)
    /\ \E c \in SampledCells :
           /\ CumFinite(t_idx - 1, c)
           /\ Units(CumAt(t_idx - 1, c[1], c[2])) < Units(CumAt(t_idx - 2, c[1], c[2]))
           /\ precip_values.grid[c[1]][c[2]] = Zero

\* the cells whose claimed interval value at time index t is finite and positive
\* (self_p's dataset, the sampling of the running call)
PositiveCells(t) ==
    { c \in SampledCells : CumFinite(t, c) /\ ClaimedInterval(t, c) > 0 }

\* C2: in every timestep, t = 0 included, every precipitation point has a finite
\* value strictly greater than 0, and exactly the cells with a finite positive
\* interval value are emitted: a cell whose delta is 0 or whose cumulative value
\* decreased is absent
C2_PrecipPointsPositive ==
    (pc \in {"loop", "idle"} /\ precip_var # None) =>
        \A n \in 1..Len(timesteps) :
            LET d == timesteps[n].precipitation.data
            IN  /\ \A q \in 1..Len(d) : IsFinite(d[q].value) /\ d[q].value.m > 0
                /\ Len(d) = Cardinality(PositiveCells(n - 1))
                /\ timesteps[n].precipitation.data_points = Len(d)

\* a parse where the cell under test held 0.0009 m then 0.0008 m (a decrease), another
\* cell stalled (delta exactly 0), a cell was negative at t = 0, and points were emitted
C2_Witness ==
    /\ pc = "idle" /\ precip_var # None /\ Len(timesteps) = NumTimes
    /\ CumAt(0, 1, 1) = Num(-1, -4)
    /\ CumAt(1, 1, 1) = Num(9, -4)
    /\ CumAt(2, 1, 1) = Num(8, -4)
    /\ sample_rate = 1
    /\ CumAt(1, 2, 1) = CumAt(0, 2, 1)
    /\ Len(timesteps[1].precipitation.data) > 0
    /\ Len(timesteps[2].precipitation.data) > 0
    /\ Len(timesteps[3].precipitation.data) < Cardinality(SampledCells)

\* C3: after timestep t has been processed the carried previous-cumulative state
\* equals, cell for cell, the source's raw cumulative precipitation at timestep t
C3_PrevIsRawCumulative ==
    PrecipProcessed =>
        /\ prev_precip_cumulative.some
        /\ Len(prev_precip_cumulative.grid) = Len(lat_idx)
        /\ \A c \in SampledCells :
              /\ Len(prev_precip_cumulative.grid[c[1]]) = Len(lon_idx)
              /\ prev_precip_cumulative.grid[c[1]][c[2]] = CumAt(t_idx - 1, c[1], c[2])

\* the carried state after a timestep t >= 2 whose raw value differs from the
\* raw value of t-1, from its own clamped value and from its unit-converted value
C3_Witness ==
    /\ PrecipProcessed
    /\ t_idx >= 3
    /\ CumAt(t_idx - 1, 1, 1) = Num(-1, -4)
    /\ CumAt(t_idx - 2, 1, 1) = Num(9, -4)
    /\ prev_precip_cumulative.grid[1][1] = Num(-1, -4)

\* C4: every parse call starts with no carried precipitation state, and two
\* parse calls on the same dataset with the same sample_rate, in any order
\* relative to parses of other datasets, return equal timestep lists
C4_NoLeakBetweenCalls ==
    /\ (pc = "loop" /\ t_idx = 0) =>
           /\ ~prev_precip_cumulative.some
           /\ timesteps = <<>>
    /\ \A a \in 1..Len(returned), b \in 1..Len(returned) :
           (returned[a].parser = returned[b].parser
            /\ returned[a].sample_rate = returned[b].sample_rate)
           => returned[a].result.timesteps = returned[b].result.timesteps

\* parser 1 parsed, then parser 2, then parser 1 again with the same sample_rate,
\* and the repeated parse emitted precipitation at its timestep 0
C4_Witness ==
    /\ Len(returned) = 3
    /\ returned[1].parser = 1 /\ returned[2].parser = 2 /\ returned[3].parser = 1
    /\ returned[1].sample_rate = returned[3].sample_rate
    /\ returned[2].sample_rate # returned[1].sample_rate
    /\ Len(returned[3].result.timesteps) = NumTimes
    /\ Len(returned[3].result.timesteps[1].precipitation.data) > 0
    /\ returned[3].result.timesteps[NumTimes].precipitation.data
           # returned[3].result.timesteps[1].precipitation.data

PointLons(ts) ==
    { ts.pm25.data[q].lon : q \in 1..Len(ts.pm25.data) }
    \cup { ts.wind.data[q].lon : q \in 1..Len(ts.wind.data) }

IsFirstPresent(result, names, namespace) ==
    \/ /\ result = None
       /\ \A i \in 1..Len(names) : names[i] \notin namespace
    \/ \E i \in 1..Len(names) :
           /\ result = names[i]
           /\ names[i] \in namespace
           /\ \A h \in 1..(i - 1) : names[h] \notin namespace

\* C10: the schema detector returns the first alias of the candidate list, in list
\* order, that is exactly present in the dataset's variable (resp. dimension)
\* namespace, and None when no candidate is present
C10_DetectFirstAlias ==
    pc \in {"loop", "raised"} =>
        LET ds == datasets[self_p]
        IN  /\ IsFirstPresent(pm25_var, Pm25Names, ds.data_vars)
            /\ IsFirstPresent(u_wind_var, UWindNames, ds.data_vars)
            /\ IsFirstPresent(v_wind_var, VWindNames, ds.data_vars)
            /\ IsFirstPresent(precip_var, PrecipNames, ds.data_vars)
            /\ (pm25_var # None /\ u_wind_var # None /\ v_wind_var # None) =>
                  /\ IsFirstPresent(lat_coord, LatNames, ds.dims)
                  /\ IsFirstPresent(lon_coord, LonNames, ds.dims)
                  /\ IsFirstPresent(time_coord, TimeNames, ds.dims)

\* a dataset declaring several aliases of one quantity and of one dimension, a
\* quantity with no alias declared, and names that only resemble an alias
C10_Witness ==
    /\ pc = "raised"
    /\ {"pm25", "pm2p5", "u10m", "u10"} \subseteq datasets[self_p].data_vars
    /\ pm25_var = "pm2p5" /\ u_wind_var = "u10" /\ v_wind_var = "v10m"
    /\ precip_var = "total_precipitation"
    /\ "long" \in datasets[self_p].dims
    /\ lat_coord = "latitude" /\ lon_coord = None /\ time_coord = "time"

-----------------------------------------------------------------------------
(* Properties of UnifiedParser.parse.                                      *)

\* instant (minutes) of the n-th primary timestep and of the n-th secondary timestamp
PrimaryMinutes(n) == cams_timesteps[n].timestamp.h * 60 + cams_timesteps[n].timestamp.mi
SecondaryMinutes(n) == ecmwf_timestamps[n].h * 60 + ecmwf_timestamps[n].mi

\* absolute time difference in minutes between primary n and secondary i
GapMinutes(n, i) == Abs(PrimaryMinutes(n) - SecondaryMinutes(i))

\* C5: for each primary timestep the selected secondary index is the smallest
\* index whose absolute time difference is strictly less than 1 hour; exactly
\* 1 hour does not match; no index is selected when none is within tolerance
C5_FirstMatchWithinTolerance ==
    \A n \in 1..Len(matched) :
        \/ /\ matched[n] = <<>>
           /\ \A i \in 1..Len(ecmwf_timestamps) : GapMinutes(n, i) >= 60
        \/ \E i \in 1..Len(ecmwf_timestamps) :
               /\ matched[n] = <<i - 1>>
               /\ GapMinutes(n, i) < 60
               /\ \A h \in 1..(i - 1) : GapMinutes(n, h) >= 60

\* an earlier index within tolerance was selected although a later one is closer,
\* after an index exactly 1 hour away was passed over
C5_Witness ==
    \E n \in 1..Len(matched) :
        /\ matched[n] = <<1>>
        /\ GapMinutes(n, 1) = 60
        /\ Len(ecmwf_timestamps) >= 3
        /\ GapMinutes(n, 3) < GapMinutes(n, 2)

Unmatched(n) == \A i \in 1..Len(ecmwf_timestamps) : GapMinutes(n, i) >= 60

\* C6: the merged output has exactly one timestep per primary timestep, in the
\* same order, and a timestep with no secondary timestamp within tolerance
\* carries an empty precipitation list, data_points 0 and all-zero statistics
C6_UnmatchedTimestepIsEmpty ==
    u_pc = "done" =>
        /\ Len(unified_result.timesteps) = Len(cams_timesteps)
        /\ \A n \in 1..Len(cams_timesteps) :
              LET ts == unified_result.timesteps[n]
              IN  /\ ts.index = cams_timesteps[n].index
                  /\ ts.valid_time = cams_timesteps[n].timestamp
                  /\ Unmatched(n) =>
                        /\ ts.precipitation.data = <<>>
                        /\ ts.precipitation.data_points = 0
                        /\ ts.precipitation.statistics =
                               [min |-> Zero, max |-> Zero, mean |-> Zero, total |-> Zero]

\* a finished merge of two primary timesteps: the first unmatched, the second matched
C6_Witness ==
    /\ u_pc = "done"
    /\ Len(cams_timesteps) = 2
    /\ Len(ecmwf_timestamps) >= 1
    /\ Unmatched(1) /\ ~Unmatched(2)
    /\ unified_result.timesteps[1].precipitation.data = <<>>
    /\ unified_result.timesteps[2].precipitation.data # <<>>

\* round(x / d) as Python rounds: to the nearest integer, halves to the even one
RoundHalfEven(x, d) ==
    LET q == x \div d
        r == x - q * d
    IN  IF 2 * r < d THEN q
        ELSE IF 2 * r > d THEN q + 1
        ELSE IF q % 2 = 0 THEN q ELSE q + 1

\* elapsed seconds of primary timestep n since the first primary timestep
ElapsedSeconds(n) == (PrimaryMinutes(n) - PrimaryMinutes(1)) * 60

\* C7 as stated: forecast_hour is the elapsed time rounded to the nearest whole hour
C7_Original ==
    \A n \in 1..Len(unified_timesteps) :
        unified_timesteps[n].forecast_hour = RoundHalfEven(ElapsedSeconds(n), 3600)

\* C7 (amended): forecast_hour of every merged timestep t is the elapsed time
\* (primary_time[t] - primary_time[0]) in hours truncated toward zero (an offset of
\* 59 minutes gives 0, of -59 minutes gives 0), and it is 0 for t = 0
C7_ForecastHourTruncates ==
    \A n \in 1..Len(unified_timesteps) :
        LET fh == unified_timesteps[n].forecast_hour
            el == ElapsedSeconds(n)
        IN  /\ n = 1 => fh = 0
            /\ Abs(fh) * 3600 <= Abs(el)
            /\ Abs(el) < (Abs(fh) + 1) * 3600
            /\ el >= 0 => fh >= 0
            /\ el <= 0 => fh <= 0

\* a merged timestep at an offset of 59 minutes from the first, with forecast_hour 0
C7_Witness ==
    /\ Len(unified_timesteps) >= 2
    /\ unified_timesteps[1].forecast_hour = 0
    /\ \E n \in 1..Len(unified_timesteps) :
           ElapsedSeconds(n) = 59 * 60 /\ unified_timesteps[n].forecast_hour = 0

\* ascending order of a list of integers
Ascending(s) == \A a \in 1..Len(s), b \in 1..Len(s) : a < b => s[a] <= s[b]

\* C8 as stated: for every accepted sequence of primary timesteps the result is
\* sorted by ascending forecast_hour and starts at forecast_hour 0
C8_Original ==
    u_pc = "done" =>
        /\ Ascending(unified_result.metadata.forecast_hours)
        /\ unified_result.timesteps # <<>> => unified_result.timesteps[1].forecast_hour = 0

\* C8 (amended): in every result the first timestep, when there is one, has
\* forecast_hour 0; the timesteps are sorted by ascending forecast_hour whenever
\* the primary timestamps are in non-decreasing time order (the parser keeps the
\* order of its input and does not sort)
C8_SortedWhenInputSorted ==
    u_pc = "done" =>
        LET ts == unified_result.timesteps
        IN  /\ ts # <<>> => ts[1].forecast_hour = 0
            /\ Ascending([n \in 1..Len(cams_timesteps) |-> PrimaryMinutes(n)])
                   => Ascending([n \in 1..Len(ts) |-> ts[n].forecast_hour])

\* a finished merge of primary timesteps in ascending time order that starts after
\* the epoch and spans more than an hour
C8_Witness ==
    /\ u_pc = "done"
    /\ Len(unified_result.timesteps) >= 2
    /\ PrimaryMinutes(1) > 0
    /\ PrimaryMinutes(2) > PrimaryMinutes(1) + 60
    /\ unified_result.timesteps[2].forecast_hour = 1

-----------------------------------------------------------------------------
(* Properties of NetCDFParser.parse: schema, sampling, filters, statistics. *)

\* some name of the alias list is declared in the namespace
HasAny(names, namespace) == \E i \in 1..Len(names) : names[i] \in namespace

\* a required variable or a structural dimension of the dataset has no alias
Unresolvable(ds) ==
    \/ ~HasAny(Pm25Names, ds.data_vars)
    \/ ~HasAny(UWindNames, ds.data_vars)
    \/ ~HasAny(VWindNames, ds.data_vars)
    \/ ~HasAny(LatNames, ds.dims)
    \/ ~HasAny(LonNames, ds.dims)
    \/ ~HasAny(TimeNames, ds.dims)

\* C11: when a required quantity (concentration, u-wind, v-wind) or one of the
\* three structural dimensions (lat, lon, time) cannot be resolved, parse never
\* enters the timestep loop, extracts no timestep and returns no result: the
\* call ends in the raised schema error
C11_SchemaErrorBeforeExtraction ==
    Unresolvable(datasets[1]) =>
        /\ pc \in {"idle", "raised"}
        /\ t_idx = 0
        /\ timesteps = <<>>
        /\ returned = <<>>
        /\ calls_left = 0 => pc = "raised"

\* a call that raised on a dataset with every required variable and the two
\* spatial dimensions, but no time dimension
C11_Witness ==
    /\ pc = "raised"
    /\ pm25_var # None /\ u_wind_var # None /\ v_wind_var # None
    /\ lat_coord # None /\ lon_coord # None /\ time_coord = None
    /\ Unresolvable(datasets[1])

\* the results returned so far by the calls on parser p
ResultsOf(p) == { returned[n] : n \in { m \in 1..Len(returned) : returned[m].parser = p } }

\* C12: when no precipitation alias is present parse still succeeds: it returns
\* one timestep per time index, with the pm25 and wind lists and statistics it
\* returns for the same dataset with precipitation, and no timestep carries
\* precipitation
C12_OptionalPrecipitation ==
    /\ pc = "raised" => Unresolvable(datasets[self_p])
    /\ \A b \in ResultsOf(2) :
           LET ts == b.result.timesteps
           IN  /\ ~HasAny(PrecipNames, datasets[2].data_vars)
               /\ Len(ts) = Len(datasets[2].times)
               /\ \A n \in 1..Len(ts) :
                      /\ ts[n].index = n - 1
                      /\ "precipitation" \notin DOMAIN ts[n]
               /\ \A a \in ResultsOf(1) :
                      a.sample_rate = b.sample_rate =>
                          /\ Len(a.result.timesteps) = Len(ts)
                          /\ \A n \in 1..Len(ts) :
                                 /\ a.result.timesteps[n].timestamp = ts[n].timestamp
                                 /\ a.result.timesteps[n].pm25 = ts[n].pm25
                                 /\ a.result.timesteps[n].wind = ts[n].wind

\* both datasets of a pair parsed at the same rate: the result of the first
\* carries precipitation points, the result of the second pm25 and wind points
C12_Witness ==
    \E a \in ResultsOf(1), b \in ResultsOf(2) :
        /\ a.sample_rate = b.sample_rate
        /\ a.result.timesteps[2].precipitation.data # <<>>
        /\ b.result.timesteps[2].pm25.data # <<>>
        /\ b.result.timesteps[2].wind.data # <<>>

\* C13 as stated: a parse call with sample_rate below 1 (0 or negative) fails
\* before extraction and never returns a result
C13_InvalidRateRejected ==
    (calls_left = 0 /\ sample_rate < 1) =>
        /\ pc = "raised"
        /\ timesteps = <<>>
        /\ returned = <<>>

\* the divergence: a call with sample_rate 0 or -1 has returned a result that
\* holds every cell of the unsampled grid
C13_Witness ==
    /\ sample_rate < 1
    /\ returned # <<>>
    /\ returned[1].sample_rate = sample_rate
    /\ Len(lat_idx) = Len(datasets[1].lat)
    /\ Len(lon_idx) = Len(datasets[1].lon)
    /\ returned[1].result.timesteps[1].pm25.data # <<>>

\* the 0-based indices 0, s, 2s, ... below n
KeptIndices(n, s) == { k \in 0..(n - 1) : k % s = 0 }

\* the cells of the source grid (0-based) that sampling at rate s keeps
KeptCells(ds, s) == KeptIndices(Len(ds.lat), s) \X KeptIndices(Len(ds.lon), s)

\* C14: for sample_rate s >= 1 the sampled grid keeps exactly the coordinates at
\* indices 0, s, 2s, ... along the latitude axis and, independently, along the
\* longitude axis (ceil(n/s) coordinates of an axis of length n); the same
\* selection feeds every quantity, and s = 1 keeps every cell
C14_SamplingSelection ==
    (calls_left = 0 /\ pc \in {"loop", "idle"} /\ sample_rate >= 1) =>
        LET ds == datasets[1]
            s  == sample_rate
            kept == KeptCells(ds, s)
        IN  /\ Len(lat_idx) = Cardinality(KeptIndices(Len(ds.lat), s))
            /\ Len(lon_idx) = Cardinality(KeptIndices(Len(ds.lon), s))
            /\ Len(lat_idx) * s >= Len(ds.lat) /\ (Len(lat_idx) - 1) * s < Len(ds.lat)
            /\ Len(lon_idx) * s >= Len(ds.lon) /\ (Len(lon_idx) - 1) * s < Len(ds.lon)
            /\ \A q \in 1..Len(lat_idx) :
                   lat_idx[q] - 1 = (q - 1) * s /\ lats[q] = ds.lat[lat_idx[q]]
            /\ \A q \in 1..Len(lon_idx) :
                   lon_idx[q] - 1 = (q - 1) * s /\ (lons[q] - ds.lon[lon_idx[q]]) % 360 = 0
            /\ s = 1 => Len(lat_idx) = Len(ds.lat) /\ Len(lon_idx) = Len(ds.lon)
            /\ \A n \in 1..Len(timesteps) :
                   /\ timesteps[n].pm25.data_points =
                          Cardinality({ c \in kept :
                              IsFinite(DataAt(ds, pm25_var, n, c[1] + 1, c[2] + 1)) })
                   /\ timesteps[n].wind.data_points =
                          Cardinality({ c \in kept :
                              /\ ~isnan(DataAt(ds, u_wind_var, n, c[1] + 1, c[2] + 1))
                              /\ ~isnan(DataAt(ds, v_wind_var, n, c[1] + 1, c[2] + 1)) })
            /\ (timesteps # <<>> /\ precip_var # None) =>
                   timesteps[1].precipitation.data_points =
                       Cardinality({ c \in kept :
                           LET x == DataAt(ds, precip_var, 1, c[1] + 1, c[2] + 1)
                           IN  IsFinite(x) /\ x.m > 0 })

\* a returned parse at rate 2 of a grid whose longitude axis has odd length: the
\* last kept index closes a partial stride
C14_Witness ==
    /\ sample_rate = 2
    /\ returned # <<>>
    /\ Len(datasets[1].lon) % 2 = 1
    /\ Len(lon_idx) < Len(datasets[1].lon)
    /\ lon_idx[Len(lon_idx)] = Len(datasets[1].lon)
    /\ timesteps[1].pm25.data_points > 0
    /\ timesteps[1].wind.data_points > 0

\* the source's raw value of variable var at sampled cell c, time index t
RawAt(var, t, c) == DataAt(datasets[self_p], var, t + 1, lat_idx[c[1]], lon_idx[c[2]])

\* a finite value as an integer multiple of 10^-p (exact for the values compared)
Scaled(x, p) == x.m * Pow10(x.e + p)

\* the concentration point pt is the one of sampled cell c at time index t:
\* the cell's coordinates and its raw value times 10^9
IsPm25PointOf(pt, t, c) ==
    /\ pt.lat = lats[c[1]]
    /\ pt.lon = lons[c[2]]
    /\ pt.value.k = "num"
    /\ RawAt(pm25_var, t, c).k = "num"
    /\ Scaled(pt.value, 0) = Scaled(RawAt(pm25_var, t, c), 9)

\* C15: a concentration point is emitted for a cell if and only if the cell's
\* concentration value is finite (neither NaN nor +-Inf), whatever the validity
\* of the cell's wind or precipitation values
C15_Pm25EmittedIffFinite ==
    (pc \in {"loop", "idle"}) =>
        \A n \in 1..Len(timesteps) :
            LET data == timesteps[n].pm25.data
                finite == { c \in SampledCells : IsFinite(RawAt(pm25_var, n - 1, c)) }
            IN  /\ Len(data) = Cardinality(finite)
                /\ \A c \in finite : \E q \in 1..Len(data) : IsPm25PointOf(data[q], n - 1, c)
                /\ \A q \in 1..Len(data) :
                       /\ IsFinite(data[q].value)
                       /\ \E c \in finite : IsPm25PointOf(data[q], n - 1, c)

\* a timestep of the unsampled grid with a NaN and an infinite concentration cell:
\* neither is emitted, a cell with finite concentration and NaN wind is, and the
\* NaN concentration cell still has its wind point
C15_Witness ==
    /\ pc = "loop" /\ sample_rate = 1 /\ Len(timesteps) >= 2
    /\ isinf(RawAt(pm25_var, 1, <<1, 2>>))
    /\ isnan(RawAt(pm25_var, 1, <<2, 2>>))
    /\ isnan(RawAt(u_wind_var, 1, <<2, 1>>))
    /\ timesteps[2].pm25.data_points = Len(lats) * Len(lons) - 2
    /\ \E q \in 1..Len(timesteps[2].pm25.data) :
           IsPm25PointOf(timesteps[2].pm25.data[q], 1, <<2, 1>>)
    /\ \E q \in 1..Len(timesteps[1].wind.data) :
           /\ timesteps[1].wind.data[q].lat = lats[2]
           /\ timesteps[1].wind.data[q].lon = lons[2]

\* C16 as stated: a wind point is emitted for a cell if and only if both its u
\* and its v component are finite (neither NaN nor +-Inf), and no emitted wind
\* point and no wind statistic carries a NaN or infinite u, v, speed or direction
C16_WindPointsFinite ==
    (pc \in {"loop", "idle"}) =>
        \A n \in 1..Len(timesteps) :
            LET wind == timesteps[n].wind
                finite == { c \in SampledCells :
                               /\ IsFinite(RawAt(u_wind_var, n - 1, c))
                               /\ IsFinite(RawAt(v_wind_var, n - 1, c)) }
            IN  /\ Len(wind.data) = Cardinality(finite)
                /\ \A q \in 1..Len(wind.data) :
                       /\ IsFinite(wind.data[q].u) /\ IsFinite(wind.data[q].v)
                       /\ IsFinite(wind.data[q].speed) /\ IsFinite(wind.data[q].direction)
                /\ IsFinite(wind.statistics.min_speed)
                /\ IsFinite(wind.statistics.max_speed)
                /\ IsFinite(wind.statistics.mean_speed)

\* the divergence: a cell with u = +Inf and a finite v has its wind point emitted,
\* with an infinite speed that reaches the maximum and the mean statistic
C16_Witness ==
    /\ returned # <<>>
    /\ \E q \in 1..Len(timesteps[1].wind.data) :
           LET pt == timesteps[1].wind.data[q]
           IN  /\ pt.u = PInf /\ IsFinite(pt.v)
               /\ pt.speed = PInf /\ IsFinite(pt.direction)
    /\ timesteps[1].wind.statistics.max_speed = PInf
    /\ timesteps[1].wind.statistics.mean_speed = PInf
    /\ \A n \in 1..Len(timesteps) : \A q \in 1..Len(timesteps[n].wind.data) :
           ~isnan(timesteps[n].wind.data[q].u) /\ ~isnan(timesteps[n].wind.data[q].v)

\* a <= b for values that are finite or +Inf (emitted values have at most one
\* decimal digit)
Leq(a, b) ==
    IF b = PInf THEN TRUE
    ELSE IF a = PInf THEN FALSE
    ELSE Scaled(a, 1) <= Scaled(b, 1)

IsMinOf(x, vals) ==
    /\ \E q \in 1..Len(vals) : vals[q] = x
    /\ \A q \in 1..Len(vals) : Leq(x, vals[q])

IsMaxOf(x, vals) ==
    /\ \E q \in 1..Len(vals) : vals[q] = x
    /\ \A q \in 1..Len(vals) : Leq(vals[q], x)

RECURSIVE TenthsSum(_)
\* the sum of finite values, in tenths
TenthsSum(vals) ==
    IF vals = <<>> THEN 0 ELSE Scaled(Head(vals), 1) + TenthsSum(Tail(vals))

\* x is the sum of the values
IsSumOf(x, vals) ==
    IF \E q \in 1..Len(vals) : vals[q] = PInf THEN x = PInf
    ELSE x.k = "num" /\ Scaled(x, 1) = TenthsSum(vals)

\* x is the arithmetic mean of the non-empty list of values
IsMeanOf(x, vals) ==
    IF \E q \in 1..Len(vals) : vals[q] = PInf THEN x = PInf
    ELSE IF x.k = "frac"
         THEN x.m * Pow10(x.e + 1) = TenthsSum(vals) /\ x.n = Len(vals)
    ELSE x.k = "num" /\ Scaled(x, 4) * Len(vals) = TenthsSum(vals) * 1000

\* the field f of every point of a list
FieldOf(list, f) == [q \in 1..Len(list) |-> list[q][f]]

\* C17: the statistics of a quantity are computed over exactly its emitted point
\* list: min, max and mean are those of the emitted values, the precipitation
\* total is the sum of the emitted interval values, and data_points is the
\* length of the emitted list
C17_StatisticsOverEmitted ==
    (pc \in {"loop", "idle"}) =>
        \A n \in 1..Len(timesteps) :
            LET ts == timesteps[n]
                pv == FieldOf(ts.pm25.data, "value")
                ws == FieldOf(ts.wind.data, "speed")
            IN  /\ ts.pm25.data_points = Len(ts.pm25.data)
                /\ ts.wind.data_points = Len(ts.wind.data)
                /\ pv # <<>> =>
                       /\ IsMinOf(ts.pm25.statistics.min, pv)
                       /\ IsMaxOf(ts.pm25.statistics.max, pv)
                       /\ IsMeanOf(ts.pm25.statistics.mean, pv)
                /\ ws # <<>> =>
                       /\ IsMinOf(ts.wind.statistics.min_speed, ws)
                       /\ IsMaxOf(ts.wind.statistics.max_speed, ws)
                       /\ IsMeanOf(ts.wind.statistics.mean_speed, ws)
                /\ "precipitation" \in DOMAIN ts =>
                       LET rv == FieldOf(ts.precipitation.data, "value")
                       IN  /\ ts.precipitation.data_points = Len(rv)
                           /\ IsSumOf(ts.precipitation.statistics.total, rv)
                           /\ rv # <<>> =>
                                  /\ IsMinOf(ts.precipitation.statistics.min, rv)
                                  /\ IsMaxOf(ts.precipitation.statistics.max, rv)
                                  /\ IsMeanOf(ts.precipitation.statistics.mean, rv)

\* a timestep whose raw grids hold cells that are not emitted (NaN concentration
\* and wind, a zero interval) and whose three lists hold several distinct values
C17_Witness ==
    /\ pc = "loop" /\ sample_rate = 1 /\ Len(timesteps) >= 2 /\ precip_var # None
    /\ isnan(RawAt(pm25_var, 1, <<2, 2>>))
    /\ isnan(RawAt(u_wind_var, 1, <<2, 1>>))
    /\ LET ts == timesteps[2]
       IN  /\ ts.pm25.data_points < Len(lats) * Len(lons)
           /\ ts.wind.data_points < Len(lats) * Len(lons)
           /\ ts.precipitation.data_points < Len(lats) * Len(lons)
           /\ ts.precipitation.data_points >= 2
           /\ ts.pm25.statistics.min # ts.pm25.statistics.mean
           /\ ts.wind.statistics.min_speed # ts.wind.statistics.max_speed
           /\ ts.precipitation.statistics.total # ts.precipitation.statistics.max
    /\ \E n \in 1..Len(timesteps) :
           timesteps[n].pm25.statistics.mean # timesteps[n].pm25.statistics.median

StatFields(st) == { st[f] : f \in DOMAIN st }

\* the statistics of a quantity are all zero when its list is empty, and never NaN
ZeroWhenEmptyNeverNaN(q) ==
    /\ q.data = <<>> => \A x \in StatFields(q.statistics) : x = Zero
    /\ \A x \in StatFields(q.statistics) : ~isnan(x)

\* the statistics written by NetCDFParser.parse
NetCDFStatsSound ==
    \A n \in 1..Len(timesteps) :
        /\ ZeroWhenEmptyNeverNaN(timesteps[n].pm25)
        /\ ZeroWhenEmptyNeverNaN(timesteps[n].wind)
        /\ "precipitation" \in DOMAIN timesteps[n] =>
               ZeroWhenEmptyNeverNaN(timesteps[n].precipitation)

\* the precipitation statistics written by UnifiedParser.parse
UnifiedStatsSound ==
    \A n \in 1..Len(unified_timesteps) :
        ZeroWhenEmptyNeverNaN(unified_timesteps[n].precipitation)

\* C18 as stated: whenever a quantity's point list is empty for a timestep (pm25,
\* wind and precipitation of NetCDFParser.parse, precipitation of
\* UnifiedParser.parse) every field of its statistics is 0, and no statistics
\* field of any output is NaN
C18_StatsZeroWhenEmptyNeverNaN == NetCDFStatsSound /\ UnifiedStatsSound

\* the divergence: a merged timestep whose matched secondary values are -Inf and
\* +Inf has both emitted, and their sum and mean are NaN
C18_Witness ==
    /\ u_pc = "done"
    /\ \E n \in 1..Len(unified_result.timesteps) :
           LET pr == unified_result.timesteps[n].precipitation
           IN  /\ pr.data_points = 2
               /\ pr.data[1].value = NInf /\ pr.data[2].value = PInf
               /\ isnan(pr.statistics.mean) /\ isnan(pr.statistics.total)
               /\ pr.statistics.min = NInf /\ pr.statistics.max = PInf

\* C19: parse processes the time indices in ascending order 0, 1, 2, ..., each
\* through extract, convert, collect and statistics in that order with no stage
\* skipped, and appends exactly one record with index = t per time index; when
\* an extraction fails parse raises and returns nothing, and a returned result
\* holds the record of every time index
C19_OrderedStagesAllOrNothing ==
    /\ \A k \in 1..Len(stage_log) :
           /\ stage_log[k].t = (k - 1) \div 4
           /\ stage_log[k].stage =
                  <<"extract", "convert", "collect", "statistics">>[((k - 1) % 4) + 1]
    /\ Len(timesteps) = Len(stage_log) \div 4
    /\ \A n \in 1..Len(timesteps) : timesteps[n].index = n - 1
    /\ pc = "raised" => returned = <<>>
    /\ \A r \in 1..Len(returned) :
           LET ts == returned[r].result.timesteps
           IN  /\ Len(ts) = Len(datasets[returned[r].parser].times)
               /\ \A n \in 1..Len(ts) : ts[n].index = n - 1
               /\ Len(stage_log) = 4 * Len(ts)

\* an extraction that failed at the third time index, after two complete passes:
\* the call raised and the two records built so far were not returned
C19_Witness ==
    /\ pc = "raised"
    /\ ~Unresolvable(datasets[1])
    /\ t_idx = 2
    /\ Len(timesteps) = 2
    /\ Len(stage_log) = 8
    /\ returned = <<>>

\* the dataset of the call has an axis that is empty after sampling
EmptyAxisAfterSampling(ds, rate) ==
    \/ Cardinality(KeptIndices(Len(ds.lat), IF rate > 1 THEN rate ELSE 1)) = 0
    \/ Cardinality(KeptIndices(Len(ds.lon), IF rate > 1 THEN rate ELSE 1)) = 0

\* the timestep has empty point lists and all-zero statistics
EmptyTimestep(ts) ==
    /\ ts.pm25.data = <<>> /\ ts.pm25.data_points = 0
    /\ \A x \in StatFields(ts.pm25.statistics) : x = Zero
    /\ ts.wind.data = <<>> /\ ts.wind.data_points = 0
    /\ \A x \in StatFields(ts.wind.statistics) : x = Zero
    /\ "precipitation" \in DOMAIN ts =>
           /\ ts.precipitation.data = <<>> /\ ts.precipitation.data_points = 0
           /\ \A x \in StatFields(ts.precipitation.statistics) : x = Zero

\* C20 as stated: if the latitude or the longitude axis has length 0 after
\* sampling, parse does not raise: it returns a result whose every timestep has
\* empty point lists and all-zero statistics
C20_EmptyAxisReturnsEmptyGrid ==
    (calls_left = 0 /\ ~Unresolvable(datasets[1])
        /\ EmptyAxisAfterSampling(datasets[1], sample_rate)) =>
        /\ pc # "raised"
        /\ \A n \in 1..Len(timesteps) : EmptyTimestep(timesteps[n])
        /\ pc = "idle" =>
               /\ returned # <<>>
               /\ Len(returned[1].result.timesteps) = Len(datasets[1].times)

\* the divergence: a call on a dataset with every required variable and dimension
\* and a longitude axis of length 0 raised and returned nothing
C20_Witness ==
    /\ pc = "raised"
    /\ ~Unresolvable(datasets[1])
    /\ Len(datasets[1].lon) = 0 /\ lons = <<>>
    /\ timesteps = <<>>
    /\ returned = <<>>

\* a call on a dataset whose latitude axis alone is empty returns one empty
\* timestep per time index
EmptyLatReturnsEmptyGrid ==
    (calls_left = 0 /\ ~Unresolvable(datasets[1])
        /\ Len(datasets[1].lat) = 0 /\ Len(datasets[1].lon) > 0) =>
        /\ pc # "raised"
        /\ \A n \in 1..Len(timesteps) : EmptyTimestep(timesteps[n])
        /\ pc = "idle" =>
               /\ returned # <<>>
               /\ Len(returned[1].result.timesteps) = Len(datasets[1].times)

\* position of sampled cell c when the grid is read row by row
RowMajorRank(c) == (c[1] - 1) * Len(lon_idx) + c[2]

\* C21: the concentration list of a timestep holds exactly one point per finite
\* cell, in row-major order (latitude outer, longitude inner), each with the raw
\* value times 10^9; the grid [[1e-9, 2e-9], [3e-9, NaN]] at t = 0 yields
\* exactly the values [1.0, 2.0, 3.0] with statistics min 1.0, max 3.0, mean 2.0
C21_RowMajorScaledPoints ==
    (pc \in {"loop", "idle"}) =>
        /\ \A n \in 1..Len(timesteps) :
               LET data == timesteps[n].pm25.data
                   finite == { c \in SampledCells : IsFinite(RawAt(pm25_var, n - 1, c)) }
               IN  /\ Len(data) = Cardinality(finite)
                   /\ \A c \in finite :
                          IsPm25PointOf(
                              data[Cardinality({ d \in finite :
                                                   RowMajorRank(d) <= RowMajorRank(c) })],
                              n - 1, c)
        /\ ( /\ timesteps # <<>>
             /\ Len(lat_idx) = 2 /\ Len(lon_idx) = 2
             /\ RawAt(pm25_var, 0, <<1, 1>>) = [k |-> "num", m |-> 1, e |-> -9]
             /\ RawAt(pm25_var, 0, <<1, 2>>) = [k |-> "num", m |-> 2, e |-> -9]
             /\ RawAt(pm25_var, 0, <<2, 1>>) = [k |-> "num", m |-> 3, e |-> -9]
             /\ isnan(RawAt(pm25_var, 0, <<2, 2>>)) ) =>
               LET p0 == timesteps[1].pm25
               IN  /\ p0.data_points = 3
                   /\ FieldOf(p0.data, "value") =
                          << [k |-> "num", m |-> 1, e |-> 0],
                             [k |-> "num", m |-> 2, e |-> 0],
                             [k |-> "num", m |-> 3, e |-> 0] >>
                   /\ p0.statistics.min = [k |-> "num", m |-> 1, e |-> 0]
                   /\ p0.statistics.max = [k |-> "num", m |-> 3, e |-> 0]
                   /\ p0.statistics.mean = [k |-> "num", m |-> 2, e |-> 0]

\* the returned parse of the 2x2 example grid, unsampled
C21_Witness ==
    /\ returned # <<>>
    /\ datasets[1] = ExampleDataset
    /\ Len(lat_idx) = 2 /\ Len(lon_idx) = 2
    /\ RawAt(pm25_var, 0, <<1, 1>>) = [k |-> "num", m |-> 1, e |-> -9]
    /\ isnan(RawAt(pm25_var, 0, <<2, 2>>))
    /\ returned[1].result.timesteps[1].pm25.data_points = 3
    /\ returned[1].result.timesteps[1].pm25.data[3].lat = 40
    /\ returned[1].result.timesteps[1].pm25.data[3].lon = 10

\* C22: every emitted wind point has speed = sqrt(u^2 + v^2) and a direction
\* (270 - degrees(atan2(v, u))) mod 360 in [0, 360) that follows the
\* meteorological "from" convention: wind towards the south (u = 0, v < 0) gives
\* 0, towards the west (u < 0, v = 0) 90, towards the north (u = 0, v > 0) 180,
\* towards the east (u > 0, v = 0) 270
C22_WindSpeedDirection ==
    (pc \in {"loop", "idle"}) =>
        \A n \in 1..Len(timesteps) : \A q \in 1..Len(timesteps[n].wind.data) :
            LET pt == timesteps[n].wind.data[q]
                d  == Scaled(pt.direction, 0)
            IN  /\ (IsFinite(pt.u) /\ IsFinite(pt.v)) =>
                       /\ IsFinite(pt.speed)
                       /\ Scaled(pt.speed, 0) >= 0
                       /\ Scaled(pt.speed, 0) * Scaled(pt.speed, 0) =
                              Scaled(pt.u, 0) * Scaled(pt.u, 0)
                                  + Scaled(pt.v, 0) * Scaled(pt.v, 0)
                /\ (isinf(pt.u) \/ isinf(pt.v)) => pt.speed = PInf
                /\ IsFinite(pt.direction)
                /\ 0 <= d /\ d < 360
                /\ (IsFinite(pt.u) /\ IsFinite(pt.v)) =>
                       /\ (pt.u.m = 0 /\ pt.v.m < 0) => d = 0
                       /\ (pt.u.m < 0 /\ pt.v.m = 0) => d = 90
                       /\ (pt.u.m = 0 /\ pt.v.m > 0) => d = 180
                       /\ (pt.u.m > 0 /\ pt.v.m = 0) => d = 270

\* a timestep whose wind list holds a point of each of the four cardinal
\* directions, with speeds above 1
C22_Witness ==
    /\ pc \in {"loop", "idle"} /\ timesteps # <<>>
    /\ LET data == timesteps[1].wind.data
           Has(d) == \E q \in 1..Len(data) :
                         /\ IsFinite(data[q].u) /\ IsFinite(data[q].v)
                         /\ Scaled(data[q].direction, 0) = d
                         /\ Scaled(data[q].speed, 0) > 1
       IN  Has(0) /\ Has(90) /\ Has(180) /\ Has(270)

\* C23 as stated: for each of the four quantities whose variable has a
\* forecast-reference-time or a level axis, parse selects index 0 along it before
\* extracting timesteps, so that every per-timestep grid is two-dimensional
\* whichever subset of the variables carries those axes: the call never raises
\* on such a dataset and returns a record for every time index
C23_ExtraAxesReduced ==
    (calls_left = 0 /\ ~Unresolvable(datasets[1])) =>
        /\ pc # "raised"
        /\ pc = "loop" =>
               \A q \in Quantities : RemainingAxes(datasets[1], q) = {}
        /\ pc = "idle" =>
               /\ returned # <<>>
               /\ Len(returned[1].result.timesteps) = Len(datasets[1].times)

\* the divergence: only the precipitation variable carries a
\* forecast-reference-time axis; no selection is made, the precipitation slice
\* stays three-dimensional and the first pass of the loop raises
C23_Witness ==
    /\ pc = "raised"
    /\ ~Unresolvable(datasets[1])
    /\ datasets[1].axes["pm25"] = {}
    /\ datasets[1].axes["u_wind"] = {} /\ datasets[1].axes["v_wind"] = {}
    /\ datasets[1].axes["precip"] = {"forecast_reference_time"}
    /\ lons # <<>> /\ t_idx = 0
    /\ timesteps = <<>> /\ returned = <<>>

\* when pm25, u and v carry the same extra axes and precipitation none beyond
\* them, the selection leaves two-dimensional grids and the call returns
UniformAxesReduced ==
    (calls_left = 0 /\ ~Unresolvable(datasets[1])
        /\ datasets[1].axes["u_wind"] = datasets[1].axes["pm25"]
        /\ datasets[1].axes["v_wind"] = datasets[1].axes["pm25"]
        /\ datasets[1].axes["precip"] \subseteq datasets[1].axes["pm25"]) =>
        /\ pc # "raised"
        /\ \A q \in Quantities : RemainingAxes(datasets[1], q) = {}

\* the secondary values at the index matched for merged timestep n, point by point
MatchedValues(n) ==
    [q \in 1..Len(ecmwf_precip_data) |->
        ecmwf_precip_data[q].precipitation[matched[n][1] + 1]]

\* C24 as stated: a secondary per-point value is emitted as a precipitation point
\* for the matched index if and only if it is non-null and finite; null, NaN and
\* +-Inf values never reach the merged point list or its statistics
C24_SecondaryFiniteOnly ==
    \A n \in 1..Len(unified_timesteps) :
        LET pr == unified_timesteps[n].precipitation
        IN  /\ \A q \in 1..Len(pr.data) : pr.data[q].value.k = "num"
            /\ \A x \in StatFields(pr.statistics) : x.k = "num"
            /\ matched[n] # <<>> =>
                   Len(pr.data) =
                       Cardinality({ q \in 1..Len(ecmwf_precip_data) :
                                        MatchedValues(n)[q].k = "num" })

\* the divergence: at one matched index the null and the NaN value are filtered,
\* at another the infinite values are emitted and reach the statistics
C24_Witness ==
    /\ u_pc = "done"
    /\ \E n \in 1..Len(unified_timesteps) :
           /\ matched[n] # <<>>
           /\ \E q \in 1..Len(ecmwf_precip_data) : MatchedValues(n)[q].k \in {"none", "nan"}
           /\ \A q \in 1..Len(unified_timesteps[n].precipitation.data) :
                  unified_timesteps[n].precipitation.data[q].value.k = "num"
    /\ \E n \in 1..Len(unified_timesteps) :
           LET pr == unified_timesteps[n].precipitation
           IN  /\ \E q \in 1..Len(pr.data) : pr.data[q].value = PInf
               /\ pr.statistics.max = PInf

-----------------------------------------------------------------------------
(* Properties of backend/main.py main().                                   *)

\* C25 as stated: every dataset handle main() opens by constructing a
\* NetCDFParser is closed by main() after the last parse access on every
\* execution path, including the path where parse raises; parse itself never
\* closes the handle
C25_HandleClosedOnEveryPath ==
    /\ (main_pc = "done" /\ handle # "none") => handle = "closed"
    /\ (main_pc = "parse") => handle = "open"

\* the divergence: parse raised, main() returned 1 and the handle is still open
C25_Witness ==
    /\ main_pc = "done"
    /\ main_ret = 1
    /\ pc = "raised"
    /\ handle = "open"

\* on the path where parse returns the handle is closed before main() goes on,
\* and it stays open for as long as parse runs
HandleClosedAfterReturn ==
    /\ (main_pc \in {"sources", "done"} /\ returned # <<>>) => handle = "closed"
    /\ (main_pc = "parse") => handle = "open"


-----------------------------------------------------------------------------
(* Properties of AirQualityDataParser.parse_pm25_to_json.                  *)

\* the finite cells of the sampled grid at time t (0-based), in row-major order,
\* as the points the output holds for them
AqValidPoints(t) ==
    LET ds == datasets[1]
        li == SliceIdx(Len(ds.lat), aq_sample_rate)
        lo == SliceIdx(Len(ds.lon), aq_sample_rate)
        cs == Cells(Len(li), Len(lo))
        raw(c) == DataAt(ds, AqVariable(ds), t + 1, li[c[1]], lo[c[2]])
        finite == SelectSeq(cs, LAMBDA c : IsFinite(raw(c)))
    IN  [n \in 1..Len(finite) |->
            [lat |-> ds.lat[li[finite[n][1]]], lon |-> ds.lon[lo[finite[n][2]]],
             value |-> Num(raw(finite[n]).m, raw(finite[n]).e + 9)]]

\* C26: for every non-None max_points_per_time N each timestep's data list has
\* at most N points (data_points <= N) and consists of the first finite cells in
\* row-major order; when it is None every finite cell is included
C26_MaxPointsPerTime ==
    \A n \in 1..Len(forecasts) :
        LET f == forecasts[n]
            valid == AqValidPoints(n - 1)
        IN  /\ f.data_points = Len(f.data)
            /\ IF max_points_per_time.some
               THEN /\ f.data_points <= max_points_per_time.n
                    /\ f.data_points <= Len(valid)
                    /\ f.data = SubSeq(valid, 1, f.data_points)
               ELSE f.data = valid

\* a call with max_points_per_time = 0 returned a timestep that holds every
\* finite cell of its grid
C26_Witness ==
    /\ aq_pc = "done"
    /\ max_points_per_time = LimitOf(0)
    /\ \E n \in 1..Len(forecasts) :
           /\ forecasts[n].data_points > 0
           /\ forecasts[n].data = AqValidPoints(n - 1)

\* for N >= 1 the list is the first min(N, number of finite cells) finite cells,
\* and for None it is all of them
PositiveLimitRespected ==
    \A n \in 1..Len(forecasts) :
        LET f == forecasts[n]
            valid == AqValidPoints(n - 1)
        IN  /\ (max_points_per_time.some /\ max_points_per_time.n >= 1)
                  => f.data = SubSeq(valid, 1, Min2(max_points_per_time.n, Len(valid)))
            /\ ~max_points_per_time.some => f.data = valid

\* a limit of 2 cut a timestep with more than two finite cells
LimitCutsTimestep ==
    /\ aq_pc = "done"
    /\ max_points_per_time = LimitOf(2)
    /\ \E n \in 1..Len(forecasts) :
           forecasts[n].data_points = 2 /\ Len(AqValidPoints(n - 1)) > 2

-----------------------------------------------------------------------------
(* Properties of fetch_pollution_sources.                                  *)

\* the origins of the entries of fires
Origins == { fires[n].origin : n \in 1..Len(fires) }

\* C27: the fire entries come from exactly one origin: from the API when the API
\* fetch succeeds, from data/fire_data.json only when the API path failed, none
\* otherwise; the two are never mixed, whatever point the API path fails at
C27_FiresFromOneOrigin ==
    ps_pc = "done" =>
        /\ Cardinality(Origins) <= 1
        /\ ~firms_fails =>
              /\ Origins \subseteq {"api"}
              /\ Len(fires) = Cardinality({n \in 1..Len(firms_rows) : firms_rows[n] = "ok"})
              /\ \A n \in 1..Len(fires) : firms_rows[fires[n].id] = "ok"
        /\ firms_fails =>
              /\ Origins \subseteq {"file"}
              /\ ~fallback_file.exists => fires = <<>>
              /\ \A n \in 1..Len(fires) : fires[n].id = n /\ fallback_file.fires[n].has_lat

\* the API path failed at its last step, the save, after fires were fetched,
\* while a fallback file with entries exists: fires holds the API entries only
C27_Witness ==
    /\ ps_pc = "done"
    /\ ~firms_fails /\ save_fails
    /\ fallback_file.exists /\ fallback_file.fires # <<>>
    /\ fires # <<>>
    /\ Origins = {"api"}

\* the fetch raised and the fallback file supplied the fires
FallbackUsed ==
    /\ ps_pc = "done"
    /\ firms_fails
    /\ firms_rows # <<>>
    /\ Len(fires) = MaxFileFires
    /\ Origins = {"file"}

-----------------------------------------------------------------------------
(* Properties of ECMWFFetcher.fetch.                                       *)

\* C28: after grid sampling the number of sample points, len(lats) * len(lons),
\* is at most max_points (1000), for every bounding box
C28_GridWithinMaxPoints ==
    ec_pc = "sampled" => Len(ec_lats) * Len(ec_lons) <= 1000

\* the default bounding box (Europe): 71 x 101 points are sampled with steps 2
\* and 3 to 36 x 34 = 1224 points
C28_Witness ==
    /\ ec_pc = "sampled"
    /\ bbox = DefaultBbox
    /\ Len(ec_lats) = 36
    /\ Len(ec_lons) = 34

\* the sampled axes start at the south-west corner and never hold more than 62
\* coordinates each
SampledAxesBounded ==
    ec_pc = "sampled" /\ (bbox[1] - bbox[3] + 1) * (bbox[4] - bbox[2] + 1) > 1000 =>
        /\ Len(ec_lats) <= 62 /\ Len(ec_lons) <= 62
        /\ ec_lats # <<>> => ec_lats[1] = bbox[3]
        /\ ec_lons # <<>> => ec_lons[1] = bbox[2]

-----------------------------------------------------------------------------
(* Properties of the result of UnifiedParser.parse.                        *)

\* C29: the metadata of the result agrees with its body: num_timesteps is the
\* number of timesteps, forecast_hours[i] is timesteps[i].forecast_hour,
\* forecast_reference_time is the first timestep's valid_time (null when there
\* is none), and every merged timestep passes the primary timestep's index,
\* timestamp (as valid_time), pm25 and wind through unchanged
C29_MetadataAgreesWithBody ==
    u_pc = "done" =>
        LET md == unified_result.metadata
            ts == unified_result.timesteps
        IN  /\ md.num_timesteps = Len(ts)
            /\ Len(md.forecast_hours) = Len(ts)
            /\ \A i \in 1..Len(ts) : md.forecast_hours[i] = ts[i].forecast_hour
            /\ Len(ts) = 0 => md.forecast_reference_time = <<>>
            /\ Len(ts) > 0 => md.forecast_reference_time = <<ts[1].valid_time>>
            /\ Len(ts) = Len(cams_timesteps)
            /\ \A i \in 1..Len(ts) :
                   /\ ts[i].index = cams_timesteps[i].index
                   /\ ts[i].valid_time = cams_timesteps[i].timestamp
                   /\ ts[i].pm25 = cams_timesteps[i].pm25
                   /\ ts[i].wind = cams_timesteps[i].wind

\* a result of two timesteps with different valid times and forecast hours
C29_Witness ==
    /\ u_pc = "done"
    /\ unified_result.metadata.num_timesteps = 2
    /\ unified_result.timesteps[1].valid_time # unified_result.timesteps[2].valid_time
    /\ unified_result.metadata.forecast_hours = <<0, 2>>
    /\ unified_result.timesteps[1].pm25 # unified_result.timesteps[2].pm25

\* a result without timesteps: the reference time is null
EmptyUnifiedResult ==
    /\ u_pc = "done"
    /\ unified_result.timesteps = <<>>
    /\ unified_result.metadata.forecast_reference_time = <<>>
    /\ ecmwf_timestamps # <<>>

-----------------------------------------------------------------------------
(* The interval values of NetCDFParser.parse summed over time.             *)

\* the cumulative value of cell c at time index t, in units of 10^-4 m
CumUnits(t, c) == Units(CumAt(t, c[1], c[2]))

\* the interval values logged for cell c at time indices 0 .. n - 1, summed, in
\* units of 10^-4 mm
RECURSIVE IntervalSum(_, _)
IntervalSum(c, n) ==
    IF n = 0 THEN 0
    ELSE Units(precip_log[n].grid[c[1]][c[2]]) + IntervalSum(c, n - 1)

\* the falls of the cumulative value of cell c up to time index n, summed
RECURSIVE FallSum(_, _)
FallSum(c, n) ==
    IF n = 0 THEN 0
    ELSE Max0(CumUnits(n - 1, c) - CumUnits(n, c)) + FallSum(c, n - 1)

CumAllFinite(c, T) == \A t \in 0..T : IsFinite(CumAt(t, c[1], c[2]))

NonDecreasing(c, T) == \A t \in 1..T : CumUnits(t, c) >= CumUnits(t - 1, c)

DipsAndRecovers(c, T) ==
    \E a, b \in 1..T :
        /\ a < b
        /\ CumUnits(a, c) < CumUnits(a - 1, c)
        /\ CumUnits(b, c) > CumUnits(b - 1, c)

\* C30: when the cumulative precipitation of a cell is non-decreasing over time,
\* the interval values computed for timesteps 0..T sum to cumulative[T]*1000;
\* when the cumulative value dips and recovers, the sum exceeds
\* cumulative[T]*1000 (the carried state is the latest raw cumulative value, not
\* the running maximum)
C30_IntervalsTelescope ==
    (pc \in {"loop", "idle"} /\ precip_var # None /\ precip_log # <<>>) =>
        \A c \in SampledCells :
            LET T == Len(precip_log) - 1
            IN  CumAllFinite(c, T) =>
                   /\ \A n \in 1..(T + 1) :
                          precip_log[n].some /\ IsFinite(precip_log[n].grid[c[1]][c[2]])
                   /\ NonDecreasing(c, T) =>
                          IntervalSum(c, T + 1) = CumUnits(T, c) * 1000
                   /\ DipsAndRecovers(c, T) =>
                          IntervalSum(c, T + 1) > CumUnits(T, c) * 1000

\* a parse returned where one cell rose at every step from a positive start and
\* another cell fell and rose again
C30_Witness ==
    /\ pc = "idle" /\ precip_var # None
    /\ Len(precip_log) >= 3
    /\ \E c \in SampledCells :
           /\ CumAllFinite(c, Len(precip_log) - 1)
           /\ CumUnits(0, c) > 0
           /\ \A t \in 1..(Len(precip_log) - 1) : CumUnits(t, c) > CumUnits(t - 1, c)
           /\ IntervalSum(c, Len(precip_log)) = CumUnits(Len(precip_log) - 1, c) * 1000
    /\ \E c \in SampledCells :
           /\ CumAllFinite(c, Len(precip_log) - 1)
           /\ DipsAndRecovers(c, Len(precip_log) - 1)
           /\ IntervalSum(c, Len(precip_log)) > CumUnits(Len(precip_log) - 1, c) * 1000

\* the sum of the interval values is cumulative[T]*1000 plus every fall of the
\* cumulative value, whether or not the value recovers afterwards
IntervalSumExact ==
    (pc \in {"loop", "idle"} /\ precip_var # None /\ precip_log # <<>>) =>
        \A c \in SampledCells :
            LET T == Len(precip_log) - 1
            IN  CumAllFinite(c, T) =>
                   IntervalSum(c, T + 1) = (CumUnits(T, c) + FallSum(c, T)) * 1000

====
